---------------------------- MODULE Spec2Model ----------------------------
(***************************************************************************)
(* Token Bridge Relayer (Solana program `token_bridge_relayer`).           *)
(*                                                                         *)
(* Every instruction of the program is one atomic step of the host ledger: *)
(* it either commits all of its writes or none.  A rejected instruction    *)
(* therefore changes nothing but `last`, the record of the most recent     *)
(* instruction and its outcome, which is how properties observe failures.  *)
(***************************************************************************)
EXTENDS Integers, Sequences, FiniteSets, TLC

(***************************************************************************)
(* Identities, chains, numbers                                             *)
(***************************************************************************)

\* Pubkey::default(), the all-zero identity.
ZeroKey == 0

\* Highest identity of the model; identities are 0..NumKeys.
NumKeys == 3

Keys == 0..NumKeys

\* Accounts that can sign a transaction (nobody holds the key of ZeroKey).
Signers == 1..NumKeys

\* wormhole::CHAIN_ID_SOLANA, the host chain's identifier.
CHAIN_ID_SOLANA == 1

Chains == {0, 1, 2}

\* A 32-byte address is modelled by a number; 0 is the all-zero byte string.
Addresses == {0, 1, 2}

\* let initial_precision: u32 = 100000000;
initial_precision == 100000000

\* Option<Pubkey>
None == [is_some |-> FALSE, key |-> ZeroKey]

Some(key) == [is_some |-> TRUE, key |-> key]

Mints == {"WSOL", "USDC", "WETH"}

\* spl_token::native_mint::ID
native_mint == "WSOL"

\* Mints the bridge holds in custody (native to the host chain); the others
\* are minted and burned by the bridge (wrapped).
NativeMints == {"WSOL", "USDC"}

\* mint.decimals
decimals(mint) == CASE mint = "WSOL" -> 9 [] mint = "USDC" -> 6 [] OTHER -> 8

\* Attested messages (VAA hashes) of the model.
Msgs == {1, 2}

\* Width of the model's u64.  The model checker's integers are 32 bits wide,
\* so the 64-bit amounts of the program are modelled U64_BITS wide; every
\* operation keeps its width.
U64_BITS == 6

U64_MAX == 2^U64_BITS - 1

RECURSIVE Pow10(_)
Pow10(n) == IF n = 0 THEN 1 ELSE 10 * Pow10(n - 1)

\* token_bridge::normalize_amount: amounts travel with at most 8 decimals.
normalize_amount(amount, dec) ==
    IF dec > 8 THEN amount \div Pow10(dec - 8) ELSE amount

\* token_bridge::denormalize_amount
denormalize_amount(amount, dec) ==
    IF dec > 8 THEN amount * Pow10(dec - 8) ELSE amount

\* token_bridge::truncate_amount
truncate_amount(amount, dec) ==
    denormalize_amount(normalize_amount(amount, dec), dec)

\* Result of an unchecked u64 `a + b`: the sum when it fits; otherwise the
\* build decides: an abort (overflow checks on) or the wrapped sum.  Aborted
\* is no u64 value.
Aborted == U64_MAX + 1

u64_add(a, b, checks) ==
    IF a + b <= U64_MAX THEN a + b
    ELSE IF checks THEN Aborted
    ELSE (a + b) % (2^U64_BITS)

VARIABLES
    initialized,        \* the three config accounts exist
    sender_config,      \* SenderConfig
    redeemer_config,    \* RedeemerConfig
    owner_config,       \* OwnerConfig
    registered_token,   \* mint  -> RegisteredToken
    foreign_contract,   \* chain -> ForeignContract (with its existence)
    relayer_fee,        \* chain -> RelayerFee (with its existence)
    token_balance,      \* mint  -> (owner -> balance of the owner's token account)
    lamports,           \* identity -> native gas balance
    custody,            \* mint  -> tokens held by the bridge's custody account
    sequence,           \* the bridge's outbound sequence number
    token_bridge_claim, \* message -> the bridge's claim record exists
    vaa,                \* message -> the attested transfer it carries
    overflow_checks,    \* the build aborts on integer overflow (else it wraps)
    last                \* the most recent instruction, its outcome, the pending
                        \* owner it found and the fund movements it made

configVars == <<initialized, sender_config, redeemer_config, owner_config>>

registryVars == <<registered_token, foreign_contract, relayer_fee>>

ledgerVars == <<token_balance, lamports, custody, sequence, token_bridge_claim>>

\* What no instruction writes: the attested messages and the build profile.
envVars == <<vaa, overflow_checks>>

progVars == <<configVars, registryVars, ledgerVars, envVars>>

vars == <<progVars, last>>

(***************************************************************************)
(* Outcome of an instruction                                               *)
(***************************************************************************)

\* The instruction returned Ok(()): its writes (stated by the caller of this
\* operator) are committed.
\* An instruction that moves no funds.
NoEffects == <<>>

CommittedWith(op, payer, args, effects) ==
    last' = [op |-> op, payer |-> payer, args |-> args, err |-> "Ok",
             prior_pending |-> owner_config.pending_owner, effects |-> effects]

Committed(op, payer, args) ==
    /\ CommittedWith(op, payer, args, NoEffects)
    /\ UNCHANGED <<ledgerVars, envVars>>

\* Mutant: a failed instruction leaves claim records behind.
Rejected_KeepsClaims(op, payer, args, err) ==
    /\ last' = [op |-> op, payer |-> payer, args |-> args, err |-> err,
                 prior_pending |-> owner_config.pending_owner,
                 effects |-> NoEffects]
    /\ token_bridge_claim' = [h \in Msgs |-> TRUE]
    /\ UNCHANGED <<configVars, registryVars, token_balance, lamports, custody,
                   sequence, envVars>>

\* The instruction returned an error: the ledger discards every write.
Rejected(op, payer, args, err) ==
    /\ last' = [op |-> op, payer |-> payer, args |-> args, err |-> err,
                 prior_pending |-> owner_config.pending_owner,
                 effects |-> NoEffects]
    /\ UNCHANGED progVars

(***************************************************************************)
(* Account state before `initialize`: the accounts do not exist; the model *)
(* keeps zeroed records in their place.                                    *)
(***************************************************************************)

\* No balances, no transfer bridged or redeemed yet.
EmptyLedger ==
    /\ token_balance = [m \in Mints |-> [k \in Keys |-> 0]]
    /\ lamports = [k \in Keys |-> 0]
    /\ custody = [m \in Mints |-> 0]
    /\ sequence = 0
    /\ token_bridge_claim = [h \in Msgs |-> FALSE]

\* TransferWithRelay payload and the bridge's transfer fields of a message.
Vaa(mint, amount, target_relayer_fee, to_native_token_amount, recipient) ==
    [mint |-> mint, amount |-> amount, target_relayer_fee |-> target_relayer_fee,
     to_native_token_amount |-> to_native_token_amount, recipient |-> recipient]

\* An environment for the administrative instructions, which read neither
\* the messages nor any amount.
QuietEnvironment ==
    /\ vaa = [h \in Msgs |-> Vaa("WETH", 1, 0, 0, 1)]
    /\ overflow_checks = TRUE

Init ==
    /\ initialized = FALSE
    /\ sender_config = [owner |-> ZeroKey, paused |-> FALSE,
                        relayer_fee_precision |-> 0, swap_rate_precision |-> 0]
    /\ redeemer_config = [owner |-> ZeroKey, fee_recipient |-> ZeroKey,
                          relayer_fee_precision |-> 0, swap_rate_precision |-> 0]
    /\ owner_config = [owner |-> ZeroKey, assistant |-> ZeroKey,
                       pending_owner |-> None]
    /\ registered_token = [m \in Mints |->
            [swap_rate |-> 0, max_native_swap_amount |-> 0, is_registered |-> FALSE]]
    /\ foreign_contract = [c \in Chains |->
            [exists |-> FALSE, chain |-> 0, address |-> 0]]
    /\ relayer_fee = [c \in Chains |-> [exists |-> FALSE, chain |-> 0, fee |-> 0]]
    /\ EmptyLedger
    /\ QuietEnvironment
    /\ last = [op |-> "none", payer |-> ZeroKey, args |-> <<>>, err |-> "Ok",
               prior_pending |-> None, effects |-> NoEffects]

(***************************************************************************)
(* Account constraints and OwnerConfig predicates                          *)
(***************************************************************************)

\* Mutant: the owner-only constraint also lets the assistant through.
OwnerOnly_OrAssistant(key) ==
    key = owner_config.owner \/ key = owner_config.assistant

\* The owner-only account constraint: the signer is exactly the owner.
OwnerOnly(key) == key = owner_config.owner

\* OwnerConfig::is_authorized: the key is the owner or the assistant.
is_authorized(key) == key = owner_config.owner \/ key = owner_config.assistant

\* OwnerConfig::is_pending_owner: the key is the pending owner, if there is one.
is_pending_owner(key) == owner_config.pending_owner = Some(key)

(***************************************************************************)
(* initialize                                                              *)
(***************************************************************************)

\* Mutant: the config accounts can be created over.
AccountsVacant_Always == TRUE

\* The `init` constraint of the three config accounts: initialize creates
\* them, so they must not exist yet.
AccountsVacant == ~initialized

\* Mutant: the fee recipient and the assistant are not checked.
initialize_KeysUnchecked(owner, fee_recipient, assistant) ==
    LET args == <<fee_recipient, assistant>> IN
    IF ~AccountsVacant
    THEN Rejected("initialize", owner, args, "AccountAlreadyInUse")
    ELSE
        /\ initialized' = TRUE
        /\ sender_config' = [owner |-> owner, paused |-> FALSE,
                             relayer_fee_precision |-> initial_precision,
                             swap_rate_precision |-> initial_precision]
        /\ redeemer_config' = [owner |-> owner, fee_recipient |-> fee_recipient,
                               relayer_fee_precision |-> initial_precision,
                               swap_rate_precision |-> initial_precision]
        /\ owner_config' = [owner |-> owner, assistant |-> assistant,
                            pending_owner |-> None]
        /\ UNCHANGED registryVars
        /\ Committed("initialize", owner, args)

initialize(owner, fee_recipient, assistant) ==
    LET args == <<fee_recipient, assistant>> IN
    IF ~AccountsVacant
    THEN Rejected("initialize", owner, args, "AccountAlreadyInUse")
    ELSE IF ~(fee_recipient # ZeroKey /\ assistant # ZeroKey)
    THEN Rejected("initialize", owner, args, "InvalidPublicKey")
    ELSE
        /\ initialized' = TRUE
        /\ sender_config' = [owner |-> owner, paused |-> FALSE,
                             relayer_fee_precision |-> initial_precision,
                             swap_rate_precision |-> initial_precision]
        /\ redeemer_config' = [owner |-> owner, fee_recipient |-> fee_recipient,
                               relayer_fee_precision |-> initial_precision,
                               swap_rate_precision |-> initial_precision]
        /\ owner_config' = [owner |-> owner, assistant |-> assistant,
                            pending_owner |-> None]
        /\ UNCHANGED registryVars
        /\ Committed("initialize", owner, args)

(***************************************************************************)
(* Ownership handshake                                                     *)
(***************************************************************************)

\* Mutant: the AlreadyTheOwner check is missing.
submit_ownership_transfer_request_NoOwnerCheck(owner, new_owner) ==
    LET args == <<new_owner>> IN
    IF ~initialized
    THEN Rejected("submit_ownership_transfer_request", owner, args, "AccountNotInitialized")
    ELSE IF ~(owner = owner_config.owner)
    THEN Rejected("submit_ownership_transfer_request", owner, args, "OwnerOnly")
    ELSE IF new_owner = ZeroKey
    THEN Rejected("submit_ownership_transfer_request", owner, args, "InvalidPublicKey")
    ELSE
        /\ owner_config' = [owner_config EXCEPT !.pending_owner = Some(new_owner)]
        /\ UNCHANGED <<initialized, sender_config, redeemer_config, registryVars>>
        /\ Committed("submit_ownership_transfer_request", owner, args)

\* Mutant: a request is recorded only while none is outstanding.
submit_ownership_transfer_request_KeepsFirst(owner, new_owner) ==
    LET args == <<new_owner>> IN
    IF ~initialized
    THEN Rejected("submit_ownership_transfer_request", owner, args, "AccountNotInitialized")
    ELSE IF ~(owner = owner_config.owner)
    THEN Rejected("submit_ownership_transfer_request", owner, args, "OwnerOnly")
    ELSE IF new_owner = ZeroKey
    THEN Rejected("submit_ownership_transfer_request", owner, args, "InvalidPublicKey")
    ELSE IF new_owner = owner_config.owner
    THEN Rejected("submit_ownership_transfer_request", owner, args, "AlreadyTheOwner")
    ELSE
        /\ owner_config' = [owner_config EXCEPT !.pending_owner =
                IF owner_config.pending_owner.is_some
                THEN owner_config.pending_owner ELSE Some(new_owner)]
        /\ UNCHANGED <<initialized, sender_config, redeemer_config, registryVars>>
        /\ Committed("submit_ownership_transfer_request", owner, args)

\* Mutant: the proposed key is recorded without the two key checks.
submit_ownership_transfer_request_Unchecked(owner, new_owner) ==
    LET args == <<new_owner>> IN
    IF ~initialized
    THEN Rejected("submit_ownership_transfer_request", owner, args, "AccountNotInitialized")
    ELSE IF ~OwnerOnly(owner)
    THEN Rejected("submit_ownership_transfer_request", owner, args, "OwnerOnly")
    ELSE
        /\ owner_config' = [owner_config EXCEPT !.pending_owner = Some(new_owner)]
        /\ UNCHANGED <<initialized, sender_config, redeemer_config, registryVars>>
        /\ Committed("submit_ownership_transfer_request", owner, args)

submit_ownership_transfer_request(owner, new_owner) ==
    LET args == <<new_owner>> IN
    IF ~initialized
    THEN Rejected("submit_ownership_transfer_request", owner, args, "AccountNotInitialized")
    ELSE IF ~OwnerOnly(owner)
    THEN Rejected("submit_ownership_transfer_request", owner, args, "OwnerOnly")
    ELSE IF new_owner = ZeroKey
    THEN Rejected("submit_ownership_transfer_request", owner, args, "InvalidPublicKey")
    ELSE IF new_owner = owner_config.owner
    THEN Rejected("submit_ownership_transfer_request", owner, args, "AlreadyTheOwner")
    ELSE
        /\ owner_config' = [owner_config EXCEPT !.pending_owner = Some(new_owner)]
        /\ UNCHANGED <<initialized, sender_config, redeemer_config, registryVars>>
        /\ Committed("submit_ownership_transfer_request", owner, args)

\* Mutant: the redeemer config's owner is not updated.
confirm_ownership_transfer_request_SkipsRedeemer(payer) ==
    IF ~initialized
    THEN Rejected("confirm_ownership_transfer_request", payer, <<>>, "AccountNotInitialized")
    ELSE IF ~(owner_config.pending_owner = Some(payer))
    THEN Rejected("confirm_ownership_transfer_request", payer, <<>>, "NotPendingOwner")
    ELSE
        LET pending_owner == owner_config.pending_owner.key IN
        /\ sender_config' = [sender_config EXCEPT !.owner = pending_owner]
        /\ owner_config' = [owner_config EXCEPT !.owner = pending_owner,
                                                !.pending_owner = None]
        /\ UNCHANGED <<initialized, redeemer_config, registryVars>>
        /\ Committed("confirm_ownership_transfer_request", payer, <<>>)

\* Mutant: any signer may confirm an outstanding request.
confirm_ownership_transfer_request_AnySigner(payer) ==
    IF ~initialized
    THEN Rejected("confirm_ownership_transfer_request", payer, <<>>, "AccountNotInitialized")
    ELSE IF ~owner_config.pending_owner.is_some
    THEN Rejected("confirm_ownership_transfer_request", payer, <<>>, "NotPendingOwner")
    ELSE
        LET pending_owner == owner_config.pending_owner.key IN
        /\ sender_config' = [sender_config EXCEPT !.owner = pending_owner]
        /\ redeemer_config' = [redeemer_config EXCEPT !.owner = pending_owner]
        /\ owner_config' = [owner_config EXCEPT !.owner = pending_owner,
                                                !.pending_owner = None]
        /\ UNCHANGED <<initialized, registryVars>>
        /\ Committed("confirm_ownership_transfer_request", payer, <<>>)

\* Mutant: the sender config's owner is not updated.
confirm_ownership_transfer_request_SkipsSender(payer) ==
    IF ~initialized
    THEN Rejected("confirm_ownership_transfer_request", payer, <<>>, "AccountNotInitialized")
    ELSE IF ~is_pending_owner(payer)
    THEN Rejected("confirm_ownership_transfer_request", payer, <<>>, "NotPendingOwner")
    ELSE
        LET pending_owner == owner_config.pending_owner.key IN
        /\ redeemer_config' = [redeemer_config EXCEPT !.owner = pending_owner]
        /\ owner_config' = [owner_config EXCEPT !.owner = pending_owner,
                                                !.pending_owner = None]
        /\ UNCHANGED <<initialized, sender_config, registryVars>>
        /\ Committed("confirm_ownership_transfer_request", payer, <<>>)

confirm_ownership_transfer_request(payer) ==
    IF ~initialized
    THEN Rejected("confirm_ownership_transfer_request", payer, <<>>, "AccountNotInitialized")
    ELSE IF ~is_pending_owner(payer)
    THEN Rejected("confirm_ownership_transfer_request", payer, <<>>, "NotPendingOwner")
    ELSE
        LET pending_owner == owner_config.pending_owner.key IN
        /\ sender_config' = [sender_config EXCEPT !.owner = pending_owner]
        /\ redeemer_config' = [redeemer_config EXCEPT !.owner = pending_owner]
        /\ owner_config' = [owner_config EXCEPT !.owner = pending_owner,
                                                !.pending_owner = None]
        /\ UNCHANGED <<initialized, registryVars>>
        /\ Committed("confirm_ownership_transfer_request", payer, <<>>)

cancel_ownership_transfer_request(owner) ==
    IF ~initialized
    THEN Rejected("cancel_ownership_transfer_request", owner, <<>>, "AccountNotInitialized")
    ELSE IF ~OwnerOnly(owner)
    THEN Rejected("cancel_ownership_transfer_request", owner, <<>>, "OwnerOnly")
    ELSE
        /\ owner_config' = [owner_config EXCEPT !.pending_owner = None]
        /\ UNCHANGED <<initialized, sender_config, redeemer_config, registryVars>>
        /\ Committed("cancel_ownership_transfer_request", owner, <<>>)

(***************************************************************************)
(* Foreign contracts, relayer fees, precisions, pause                      *)
(***************************************************************************)

\* Mutant: the chain and address of the emitter are stored unchecked.
register_foreign_contract_Unchecked(owner, chain, address) ==
    LET args == <<chain, address>> IN
    IF ~initialized
    THEN Rejected("register_foreign_contract", owner, args, "AccountNotInitialized")
    ELSE IF ~(owner = owner_config.owner)
    THEN Rejected("register_foreign_contract", owner, args, "OwnerOnly")
    ELSE
        /\ foreign_contract' = [foreign_contract EXCEPT ![chain] =
                [exists |-> TRUE, chain |-> chain, address |-> address]]
        /\ UNCHANGED <<configVars, registered_token, relayer_fee>>
        /\ Committed("register_foreign_contract", owner, args)

register_foreign_contract(owner, chain, address) ==
    LET args == <<chain, address>> IN
    IF ~initialized
    THEN Rejected("register_foreign_contract", owner, args, "AccountNotInitialized")
    ELSE IF ~OwnerOnly(owner)
    THEN Rejected("register_foreign_contract", owner, args, "OwnerOnly")
    ELSE IF ~(chain > CHAIN_ID_SOLANA /\ ~(address = 0))
    THEN Rejected("register_foreign_contract", owner, args, "InvalidForeignContract")
    ELSE
        /\ foreign_contract' = [foreign_contract EXCEPT ![chain] =
                [exists |-> TRUE, chain |-> chain, address |-> address]]
        /\ UNCHANGED <<configVars, registered_token, relayer_fee>>
        /\ Committed("register_foreign_contract", owner, args)

\* The ForeignContract account of the chain is a required account of
\* update_relayer_fee: the instruction is refused when it was never created.
ForeignContractRequired(chain) == foreign_contract[chain].exists

\* Mutant: only the owner, not the assistant, may update the fee.
update_relayer_fee_OwnerOnly(payer, chain, fee) ==
    LET args == <<chain, fee>> IN
    IF ~initialized \/ ~ForeignContractRequired(chain)
    THEN Rejected("update_relayer_fee", payer, args, "AccountNotInitialized")
    ELSE IF ~(payer = owner_config.owner)
    THEN Rejected("update_relayer_fee", payer, args, "OwnerOrAssistantOnly")
    ELSE
        /\ relayer_fee' = [relayer_fee EXCEPT ![chain] =
                [exists |-> TRUE, chain |-> chain, fee |-> fee]]
        /\ UNCHANGED <<configVars, registered_token, foreign_contract>>
        /\ Committed("update_relayer_fee", payer, args)

update_relayer_fee(payer, chain, fee) ==
    LET args == <<chain, fee>> IN
    IF ~initialized \/ ~ForeignContractRequired(chain)
    THEN Rejected("update_relayer_fee", payer, args, "AccountNotInitialized")
    ELSE IF ~is_authorized(payer)
    THEN Rejected("update_relayer_fee", payer, args, "OwnerOrAssistantOnly")
    ELSE
        /\ relayer_fee' = [relayer_fee EXCEPT ![chain] =
                [exists |-> TRUE, chain |-> chain, fee |-> fee]]
        /\ UNCHANGED <<configVars, registered_token, foreign_contract>>
        /\ Committed("update_relayer_fee", payer, args)

update_relayer_fee_precision(owner, relayer_fee_precision) ==
    LET args == <<relayer_fee_precision>> IN
    IF ~initialized
    THEN Rejected("update_relayer_fee_precision", owner, args, "AccountNotInitialized")
    ELSE IF ~OwnerOnly(owner)
    THEN Rejected("update_relayer_fee_precision", owner, args, "OwnerOnly")
    ELSE IF ~(relayer_fee_precision > 0)
    THEN Rejected("update_relayer_fee_precision", owner, args, "InvalidPrecision")
    ELSE
        /\ redeemer_config' = [redeemer_config EXCEPT
                !.relayer_fee_precision = relayer_fee_precision]
        /\ sender_config' = [sender_config EXCEPT
                !.relayer_fee_precision = relayer_fee_precision]
        /\ UNCHANGED <<initialized, owner_config, registryVars>>
        /\ Committed("update_relayer_fee_precision", owner, args)

\* Mutant: the new swap rate precision reaches the redeemer config only.
update_swap_rate_precision_RedeemerOnly(owner, swap_rate_precision) ==
    LET args == <<swap_rate_precision>> IN
    IF ~initialized
    THEN Rejected("update_swap_rate_precision", owner, args, "AccountNotInitialized")
    ELSE IF ~(owner = owner_config.owner)
    THEN Rejected("update_swap_rate_precision", owner, args, "OwnerOnly")
    ELSE IF ~(swap_rate_precision > 0)
    THEN Rejected("update_swap_rate_precision", owner, args, "InvalidPrecision")
    ELSE
        /\ redeemer_config' = [redeemer_config EXCEPT
                !.swap_rate_precision = swap_rate_precision]
        /\ UNCHANGED <<initialized, sender_config, owner_config, registryVars>>
        /\ Committed("update_swap_rate_precision", owner, args)

update_swap_rate_precision(owner, swap_rate_precision) ==
    LET args == <<swap_rate_precision>> IN
    IF ~initialized
    THEN Rejected("update_swap_rate_precision", owner, args, "AccountNotInitialized")
    ELSE IF ~OwnerOnly(owner)
    THEN Rejected("update_swap_rate_precision", owner, args, "OwnerOnly")
    ELSE IF ~(swap_rate_precision > 0)
    THEN Rejected("update_swap_rate_precision", owner, args, "InvalidPrecision")
    ELSE
        /\ redeemer_config' = [redeemer_config EXCEPT
                !.swap_rate_precision = swap_rate_precision]
        /\ sender_config' = [sender_config EXCEPT
                !.swap_rate_precision = swap_rate_precision]
        /\ UNCHANGED <<initialized, owner_config, registryVars>>
        /\ Committed("update_swap_rate_precision", owner, args)

set_pause_for_transfers(owner, paused) ==
    LET args == <<paused>> IN
    IF ~initialized
    THEN Rejected("set_pause_for_transfers", owner, args, "AccountNotInitialized")
    ELSE IF ~OwnerOnly(owner)
    THEN Rejected("set_pause_for_transfers", owner, args, "OwnerOnly")
    ELSE
        /\ sender_config' = [sender_config EXCEPT !.paused = paused]
        /\ UNCHANGED <<initialized, redeemer_config, owner_config, registryVars>>
        /\ Committed("set_pause_for_transfers", owner, args)

(***************************************************************************)
(* Token registration                                                      *)
(***************************************************************************)

\* Mutant: a registered token can be registered over.
register_token_Overwrites(owner, mint, swap_rate, max_native_swap_amount) ==
    LET args == <<mint, swap_rate, max_native_swap_amount>> IN
    IF ~initialized
    THEN Rejected("register_token", owner, args, "AccountNotInitialized")
    ELSE IF ~(owner = owner_config.owner)
    THEN Rejected("register_token", owner, args, "OwnerOnly")
    ELSE IF ~(swap_rate > 0)
    THEN Rejected("register_token", owner, args, "ZeroSwapRate")
    ELSE IF ~(mint # native_mint \/ max_native_swap_amount = 0)
    THEN Rejected("register_token", owner, args, "SwapsNotAllowedForNativeMint")
    ELSE
        /\ registered_token' = [registered_token EXCEPT ![mint] =
                [swap_rate |-> swap_rate,
                 max_native_swap_amount |-> max_native_swap_amount,
                 is_registered |-> TRUE]]
        /\ UNCHANGED <<configVars, foreign_contract, relayer_fee>>
        /\ Committed("register_token", owner, args)

register_token(owner, mint, swap_rate, max_native_swap_amount) ==
    LET args == <<mint, swap_rate, max_native_swap_amount>> IN
    IF ~initialized
    THEN Rejected("register_token", owner, args, "AccountNotInitialized")
    ELSE IF ~OwnerOnly(owner)
    THEN Rejected("register_token", owner, args, "OwnerOnly")
    ELSE IF ~(~registered_token[mint].is_registered)
    THEN Rejected("register_token", owner, args, "TokenAlreadyRegistered")
    ELSE IF ~(swap_rate > 0)
    THEN Rejected("register_token", owner, args, "ZeroSwapRate")
    ELSE IF ~(mint # native_mint \/ max_native_swap_amount = 0)
    THEN Rejected("register_token", owner, args, "SwapsNotAllowedForNativeMint")
    ELSE
        /\ registered_token' = [registered_token EXCEPT ![mint] =
                [swap_rate |-> swap_rate,
                 max_native_swap_amount |-> max_native_swap_amount,
                 is_registered |-> TRUE]]
        /\ UNCHANGED <<configVars, foreign_contract, relayer_fee>>
        /\ Committed("register_token", owner, args)

\* Mutant: deregistration clears the flag but keeps the rate and the maximum.
deregister_token_KeepsRate(owner, mint) ==
    LET args == <<mint>> IN
    IF ~initialized
    THEN Rejected("deregister_token", owner, args, "AccountNotInitialized")
    ELSE IF ~(owner = owner_config.owner)
    THEN Rejected("deregister_token", owner, args, "OwnerOnly")
    ELSE IF ~registered_token[mint].is_registered
    THEN Rejected("deregister_token", owner, args, "TokenAlreadyRegistered")
    ELSE
        /\ registered_token' = [registered_token EXCEPT ![mint].is_registered = FALSE]
        /\ UNCHANGED <<configVars, foreign_contract, relayer_fee>>
        /\ Committed("deregister_token", owner, args)

deregister_token(owner, mint) ==
    LET args == <<mint>> IN
    IF ~initialized
    THEN Rejected("deregister_token", owner, args, "AccountNotInitialized")
    ELSE IF ~OwnerOnly(owner)
    THEN Rejected("deregister_token", owner, args, "OwnerOnly")
    ELSE IF ~registered_token[mint].is_registered
    THEN Rejected("deregister_token", owner, args, "TokenAlreadyRegistered")
    ELSE
        /\ registered_token' = [registered_token EXCEPT ![mint] =
                [swap_rate |-> 0, max_native_swap_amount |-> 0,
                 is_registered |-> FALSE]]
        /\ UNCHANGED <<configVars, foreign_contract, relayer_fee>>
        /\ Committed("deregister_token", owner, args)

\* Mutant: the rate is checked before the registration.
update_swap_rate_RateFirst(payer, mint, swap_rate) ==
    LET args == <<mint, swap_rate>> IN
    IF ~initialized
    THEN Rejected("update_swap_rate", payer, args, "AccountNotInitialized")
    ELSE IF ~is_authorized(payer)
    THEN Rejected("update_swap_rate", payer, args, "OwnerOrAssistantOnly")
    ELSE IF ~(swap_rate > 0)
    THEN Rejected("update_swap_rate", payer, args, "ZeroSwapRate")
    ELSE IF ~registered_token[mint].is_registered
    THEN Rejected("update_swap_rate", payer, args, "TokenNotRegistered")
    ELSE
        /\ registered_token' = [registered_token EXCEPT ![mint].swap_rate = swap_rate]
        /\ UNCHANGED <<configVars, foreign_contract, relayer_fee>>
        /\ Committed("update_swap_rate", payer, args)

update_swap_rate(payer, mint, swap_rate) ==
    LET args == <<mint, swap_rate>> IN
    IF ~initialized
    THEN Rejected("update_swap_rate", payer, args, "AccountNotInitialized")
    ELSE IF ~is_authorized(payer)
    THEN Rejected("update_swap_rate", payer, args, "OwnerOrAssistantOnly")
    ELSE IF ~registered_token[mint].is_registered
    THEN Rejected("update_swap_rate", payer, args, "TokenNotRegistered")
    ELSE IF ~(swap_rate > 0)
    THEN Rejected("update_swap_rate", payer, args, "ZeroSwapRate")
    ELSE
        /\ registered_token' = [registered_token EXCEPT ![mint].swap_rate = swap_rate]
        /\ UNCHANGED <<configVars, foreign_contract, relayer_fee>>
        /\ Committed("update_swap_rate", payer, args)

\* Mutant: the native-mint restriction is missing from the update.
update_max_native_swap_amount_NoNativeCheck(owner, mint, max_native_swap_amount) ==
    LET args == <<mint, max_native_swap_amount>> IN
    IF ~initialized
    THEN Rejected("update_max_native_swap_amount", owner, args, "AccountNotInitialized")
    ELSE IF ~(owner = owner_config.owner)
    THEN Rejected("update_max_native_swap_amount", owner, args, "OwnerOnly")
    ELSE IF ~registered_token[mint].is_registered
    THEN Rejected("update_max_native_swap_amount", owner, args, "TokenNotRegistered")
    ELSE
        /\ registered_token' = [registered_token EXCEPT
                ![mint].max_native_swap_amount = max_native_swap_amount]
        /\ UNCHANGED <<configVars, foreign_contract, relayer_fee>>
        /\ Committed("update_max_native_swap_amount", owner, args)

update_max_native_swap_amount(owner, mint, max_native_swap_amount) ==
    LET args == <<mint, max_native_swap_amount>> IN
    IF ~initialized
    THEN Rejected("update_max_native_swap_amount", owner, args, "AccountNotInitialized")
    ELSE IF ~OwnerOnly(owner)
    THEN Rejected("update_max_native_swap_amount", owner, args, "OwnerOnly")
    ELSE IF ~registered_token[mint].is_registered
    THEN Rejected("update_max_native_swap_amount", owner, args, "TokenNotRegistered")
    ELSE IF ~(mint # native_mint \/ max_native_swap_amount = 0)
    THEN Rejected("update_max_native_swap_amount", owner, args, "SwapsNotAllowedForNativeMint")
    ELSE
        /\ registered_token' = [registered_token EXCEPT
                ![mint].max_native_swap_amount = max_native_swap_amount]
        /\ UNCHANGED <<configVars, foreign_contract, relayer_fee>>
        /\ Committed("update_max_native_swap_amount", owner, args)

(***************************************************************************)
(* Administrative surface: the deployment's configuration                  *)
(***************************************************************************)

\* Values of the precision instructions' argument.
Precisions == {0, 1}

\* Values of update_relayer_fee's fee argument.
Fees == {0, 1}

Next ==
    \/ \E owner \in Signers, fee_recipient \in {ZeroKey, 3}, assistant \in {ZeroKey, 2} :
            initialize(owner, fee_recipient, assistant)
    \/ \E owner \in Signers, new_owner \in Keys :
            submit_ownership_transfer_request(owner, new_owner)
    \/ \E payer \in Signers : confirm_ownership_transfer_request(payer)
    \/ \E owner \in Signers : cancel_ownership_transfer_request(owner)
    \/ \E owner \in Signers, chain \in Chains, address \in {0, 1} :
            register_foreign_contract(owner, chain, address)
    \/ \E payer \in Signers, chain \in Chains, fee \in Fees :
            update_relayer_fee(payer, chain, fee)
    \/ \E owner \in Signers, p \in Precisions : update_relayer_fee_precision(owner, p)
    \/ \E owner \in Signers, p \in Precisions : update_swap_rate_precision(owner, p)
    \/ \E owner \in Signers, paused \in BOOLEAN : set_pause_for_transfers(owner, paused)

Spec == Init /\ [][Next]_vars


(***************************************************************************)
(* Fee arithmetic                                                          *)
(***************************************************************************)

RECURSIVE GCD(_, _)
GCD(a, b) == IF b = 0 THEN a ELSE GCD(b, a % b)

\* <<nums', d'>>: the factors nums and the divisor d with their common
\* factors removed.
RECURSIVE CancelFactor(_, _, _)
CancelFactor(nums, i, d) ==
    IF i > Len(nums) THEN <<nums, d>>
    ELSE LET g == GCD(nums[i], d) IN
         CancelFactor([nums EXCEPT ![i] = @ \div g], i + 1, d \div g)

RECURSIVE Product(_)
Product(fs) == IF fs = <<>> THEN 1 ELSE Head(fs) * Product(Tail(fs))

\* floor((n1 * n2 * n3) / (d1 * d2)) for d1 * d2 > 0, computed after removing
\* the common factors of numerator and divisor, which leaves the quotient
\* unchanged and keeps the intermediate products small.
MulDiv(n1, n2, n3, d1, d2) ==
    LET a == CancelFactor(<<n1, n2, n3>>, 1, d1)
        b == CancelFactor(a[1], 1, d2)
    IN  IF n1 = 0 \/ n2 = 0 \/ n3 = 0 THEN 0
        ELSE Product(b[1]) \div (a[2] * b[2])

\* The failure signal of the checked calculations (Option::None).
NoAmount == U64_MAX + 2

\* Mutant: a fee beyond u64 wraps around instead of signalling the failure.
checked_token_fee_Wrapping(fee, dec, swap_rate, swap_rate_precision, relayer_fee_precision) ==
    IF swap_rate = 0 \/ relayer_fee_precision = 0 THEN NoAmount
    ELSE MulDiv(fee, Pow10(dec), swap_rate_precision,
                swap_rate, relayer_fee_precision) % (U64_MAX + 1)

\* Mutant: the fee is multiplied by the swap rate instead of divided by it.
checked_token_fee_Multiplies(fee, dec, swap_rate, swap_rate_precision, relayer_fee_precision) ==
    IF swap_rate = 0 \/ relayer_fee_precision = 0 THEN NoAmount
    ELSE LET q == MulDiv(fee, swap_rate, swap_rate_precision,
                         Pow10(dec), relayer_fee_precision)
         IN  IF q > U64_MAX THEN NoAmount ELSE q

\* RelayerFee::checked_token_fee: the chain's USD fee in units of the token,
\*   fee * 10^decimals * swap_rate_precision / (swap_rate * relayer_fee_precision),
\* or the failure signal on a zero divisor or a result beyond u64.
checked_token_fee(fee, dec, swap_rate, swap_rate_precision, relayer_fee_precision) ==
    IF swap_rate = 0 \/ relayer_fee_precision = 0 THEN NoAmount
    ELSE LET q == MulDiv(fee, Pow10(dec), swap_rate_precision,
                         swap_rate, relayer_fee_precision)
         IN  IF q > U64_MAX THEN NoAmount ELSE q

(***************************************************************************)
(* Outbound transfers                                                      *)
(***************************************************************************)

\* The ForeignContract and RelayerFee accounts of the recipient chain are
\* accounts of both send instructions.
SendAccountsExist(recipient_chain) ==
    /\ initialized
    /\ foreign_contract[recipient_chain].exists
    /\ relayer_fee[recipient_chain].exists

\* TokenBridgeRelayerMessage::TransferWithRelay
TransferWithRelay(target_relayer_fee, to_native_token_amount, recipient) ==
    [target_relayer_fee |-> target_relayer_fee,
     to_native_token_amount |-> to_native_token_amount,
     recipient |-> recipient]

\* Mutant: the native send checks the amount before token and recipient.
send_native_tokens_with_payload_AmountFirst(payer, mint, amount, to_native_token_amount, recipient_chain, recipient_address, wrap_native) ==
    LET op == "send_native_tokens_with_payload"
        args == <<mint, amount, to_native_token_amount, recipient_chain,
                  recipient_address, wrap_native>>
        truncated_amount == truncate_amount(amount, decimals(mint))
        normalized_to_native_amount ==
            normalize_amount(to_native_token_amount, decimals(mint))
        token_fee == checked_token_fee(relayer_fee[recipient_chain].fee,
                        decimals(mint), registered_token[mint].swap_rate,
                        sender_config.swap_rate_precision,
                        sender_config.relayer_fee_precision)
        normalized_relayer_fee == normalize_amount(token_fee, decimals(mint))
        normalized_amount == normalize_amount(amount, decimals(mint))
        sum == u64_add(normalized_to_native_amount, normalized_relayer_fee,
                       overflow_checks)
        \* tmp_token_account: staged, delegated, taken by the bridge, closed.
        staged == truncated_amount
        approved == truncated_amount
        bridged == truncate_amount(truncated_amount, decimals(mint))
        tmp_left == staged - bridged
    IN
    IF ~SendAccountsExist(recipient_chain)
    THEN Rejected(op, payer, args, "AccountNotInitialized")
    ELSE IF ~(~sender_config.paused)
    THEN Rejected(op, payer, args, "OutboundTransfersPaused")
    ELSE IF ~(truncated_amount > 0)
    THEN Rejected(op, payer, args, "ZeroBridgeAmount")
    ELSE IF ~registered_token[mint].is_registered
    THEN Rejected(op, payer, args, "TokenNotRegistered")
    ELSE IF ~(recipient_chain > CHAIN_ID_SOLANA /\ ~(recipient_address = 0))
    THEN Rejected(op, payer, args, "InvalidRecipient")
    ELSE IF ~(to_native_token_amount = 0 \/ normalized_to_native_amount > 0)
    THEN Rejected(op, payer, args, "InvalidToNativeAmount")
    ELSE IF token_fee = NoAmount
    THEN Rejected(op, payer, args, "FeeCalculationError")
    ELSE IF sum = Aborted
    THEN Rejected(op, payer, args, "ArithmeticOverflowAbort")
    ELSE IF ~(normalized_amount > sum)
    THEN Rejected(op, payer, args, "InsufficientFunds")
    ELSE IF wrap_native /\ ~(mint = native_mint)
    THEN Rejected(op, payer, args, "NativeMintRequired")
    ELSE IF wrap_native /\ lamports[payer] < truncated_amount
    THEN Rejected(op, payer, args, "InsufficientLamports")
    ELSE IF ~wrap_native /\ token_balance[mint][payer] < truncated_amount
    THEN Rejected(op, payer, args, "InsufficientTokenBalance")
    ELSE IF approved < bridged \/ (tmp_left # 0 /\ mint # native_mint)
    THEN Rejected(op, payer, args, "TokenProgramError")
    ELSE
        /\ IF wrap_native
           THEN /\ lamports' = [lamports EXCEPT ![payer] = @ - truncated_amount + tmp_left]
                /\ UNCHANGED token_balance
           ELSE /\ token_balance' = [token_balance EXCEPT ![mint][payer] = @ - truncated_amount]
                /\ lamports' = [lamports EXCEPT ![payer] = @ + tmp_left]
        /\ custody' = [custody EXCEPT ![mint] = @ + bridged]
        /\ sequence' = sequence + 1
        /\ UNCHANGED <<configVars, registryVars, token_bridge_claim, envVars>>
        /\ CommittedWith(op, payer, args,
                [staged |-> staged, approved |-> approved, bridged |-> bridged,
                 tmp_left |-> tmp_left,
                 payload |-> TransferWithRelay(normalized_relayer_fee,
                                normalized_to_native_amount, recipient_address)])

\* Mutant: the payload carries the fee in the token's own decimals.
send_native_tokens_with_payload_RawFee(payer, mint, amount, to_native_token_amount, recipient_chain, recipient_address, wrap_native) ==
    LET op == "send_native_tokens_with_payload"
        args == <<mint, amount, to_native_token_amount, recipient_chain,
                  recipient_address, wrap_native>>
        truncated_amount == truncate_amount(amount, decimals(mint))
        normalized_to_native_amount ==
            normalize_amount(to_native_token_amount, decimals(mint))
        token_fee == checked_token_fee(relayer_fee[recipient_chain].fee,
                        decimals(mint), registered_token[mint].swap_rate,
                        sender_config.swap_rate_precision,
                        sender_config.relayer_fee_precision)
        normalized_relayer_fee == normalize_amount(token_fee, decimals(mint))
        normalized_amount == normalize_amount(amount, decimals(mint))
        sum == u64_add(normalized_to_native_amount, normalized_relayer_fee,
                       overflow_checks)
        \* tmp_token_account: staged, delegated, taken by the bridge, closed.
        staged == truncated_amount
        approved == truncated_amount
        bridged == truncate_amount(truncated_amount, decimals(mint))
        tmp_left == staged - bridged
    IN
    IF ~SendAccountsExist(recipient_chain)
    THEN Rejected(op, payer, args, "AccountNotInitialized")
    ELSE IF ~(~sender_config.paused)
    THEN Rejected(op, payer, args, "OutboundTransfersPaused")
    ELSE IF ~registered_token[mint].is_registered
    THEN Rejected(op, payer, args, "TokenNotRegistered")
    ELSE IF ~(recipient_chain > CHAIN_ID_SOLANA /\ ~(recipient_address = 0))
    THEN Rejected(op, payer, args, "InvalidRecipient")
    ELSE IF ~(truncated_amount > 0)
    THEN Rejected(op, payer, args, "ZeroBridgeAmount")
    ELSE IF ~(to_native_token_amount = 0 \/ normalized_to_native_amount > 0)
    THEN Rejected(op, payer, args, "InvalidToNativeAmount")
    ELSE IF token_fee = NoAmount
    THEN Rejected(op, payer, args, "FeeCalculationError")
    ELSE IF sum = Aborted
    THEN Rejected(op, payer, args, "ArithmeticOverflowAbort")
    ELSE IF ~(normalized_amount > sum)
    THEN Rejected(op, payer, args, "InsufficientFunds")
    ELSE IF wrap_native /\ ~(mint = native_mint)
    THEN Rejected(op, payer, args, "NativeMintRequired")
    ELSE IF wrap_native /\ lamports[payer] < truncated_amount
    THEN Rejected(op, payer, args, "InsufficientLamports")
    ELSE IF ~wrap_native /\ token_balance[mint][payer] < truncated_amount
    THEN Rejected(op, payer, args, "InsufficientTokenBalance")
    ELSE IF approved < bridged \/ (tmp_left # 0 /\ mint # native_mint)
    THEN Rejected(op, payer, args, "TokenProgramError")
    ELSE
        /\ IF wrap_native
           THEN /\ lamports' = [lamports EXCEPT ![payer] = @ - truncated_amount + tmp_left]
                /\ UNCHANGED token_balance
           ELSE /\ token_balance' = [token_balance EXCEPT ![mint][payer] = @ - truncated_amount]
                /\ lamports' = [lamports EXCEPT ![payer] = @ + tmp_left]
        /\ custody' = [custody EXCEPT ![mint] = @ + bridged]
        /\ sequence' = sequence + 1
        /\ UNCHANGED <<configVars, registryVars, token_bridge_claim, envVars>>
        /\ CommittedWith(op, payer, args,
                [staged |-> staged, approved |-> approved, bridged |-> bridged,
                 tmp_left |-> tmp_left,
                 payload |-> TransferWithRelay(token_fee,
                                normalized_to_native_amount, recipient_address)])

\* Mutant: the request is staged as given, not rounded down.
send_native_tokens_with_payload_StagesRaw(payer, mint, amount, to_native_token_amount, recipient_chain, recipient_address, wrap_native) ==
    LET op == "send_native_tokens_with_payload"
        args == <<mint, amount, to_native_token_amount, recipient_chain,
                  recipient_address, wrap_native>>
        truncated_amount == truncate_amount(amount, decimals(mint))
        normalized_to_native_amount ==
            normalize_amount(to_native_token_amount, decimals(mint))
        token_fee == checked_token_fee(relayer_fee[recipient_chain].fee,
                        decimals(mint), registered_token[mint].swap_rate,
                        sender_config.swap_rate_precision,
                        sender_config.relayer_fee_precision)
        normalized_relayer_fee == normalize_amount(token_fee, decimals(mint))
        normalized_amount == normalize_amount(amount, decimals(mint))
        sum == u64_add(normalized_to_native_amount, normalized_relayer_fee,
                       overflow_checks)
        \* tmp_token_account: staged, delegated, taken by the bridge, closed.
        staged == amount
        approved == truncated_amount
        bridged == truncate_amount(truncated_amount, decimals(mint))
        tmp_left == staged - bridged
    IN
    IF ~SendAccountsExist(recipient_chain)
    THEN Rejected(op, payer, args, "AccountNotInitialized")
    ELSE IF ~(~sender_config.paused)
    THEN Rejected(op, payer, args, "OutboundTransfersPaused")
    ELSE IF ~registered_token[mint].is_registered
    THEN Rejected(op, payer, args, "TokenNotRegistered")
    ELSE IF ~(recipient_chain > CHAIN_ID_SOLANA /\ ~(recipient_address = 0))
    THEN Rejected(op, payer, args, "InvalidRecipient")
    ELSE IF ~(truncated_amount > 0)
    THEN Rejected(op, payer, args, "ZeroBridgeAmount")
    ELSE IF ~(to_native_token_amount = 0 \/ normalized_to_native_amount > 0)
    THEN Rejected(op, payer, args, "InvalidToNativeAmount")
    ELSE IF token_fee = NoAmount
    THEN Rejected(op, payer, args, "FeeCalculationError")
    ELSE IF sum = Aborted
    THEN Rejected(op, payer, args, "ArithmeticOverflowAbort")
    ELSE IF ~(normalized_amount > sum)
    THEN Rejected(op, payer, args, "InsufficientFunds")
    ELSE IF wrap_native /\ ~(mint = native_mint)
    THEN Rejected(op, payer, args, "NativeMintRequired")
    ELSE IF wrap_native /\ lamports[payer] < truncated_amount
    THEN Rejected(op, payer, args, "InsufficientLamports")
    ELSE IF ~wrap_native /\ token_balance[mint][payer] < truncated_amount
    THEN Rejected(op, payer, args, "InsufficientTokenBalance")
    ELSE IF approved < bridged \/ (tmp_left # 0 /\ mint # native_mint)
    THEN Rejected(op, payer, args, "TokenProgramError")
    ELSE
        /\ IF wrap_native
           THEN /\ lamports' = [lamports EXCEPT ![payer] = @ - truncated_amount + tmp_left]
                /\ UNCHANGED token_balance
           ELSE /\ token_balance' = [token_balance EXCEPT ![mint][payer] = @ - truncated_amount]
                /\ lamports' = [lamports EXCEPT ![payer] = @ + tmp_left]
        /\ custody' = [custody EXCEPT ![mint] = @ + bridged]
        /\ sequence' = sequence + 1
        /\ UNCHANGED <<configVars, registryVars, token_bridge_claim, envVars>>
        /\ CommittedWith(op, payer, args,
                [staged |-> staged, approved |-> approved, bridged |-> bridged,
                 tmp_left |-> tmp_left,
                 payload |-> TransferWithRelay(normalized_relayer_fee,
                                normalized_to_native_amount, recipient_address)])

\* Mutant: lamports are wrapped whatever the mint.
send_native_tokens_with_payload_WrapsAnyMint(payer, mint, amount, to_native_token_amount, recipient_chain, recipient_address, wrap_native) ==
    LET op == "send_native_tokens_with_payload"
        args == <<mint, amount, to_native_token_amount, recipient_chain,
                  recipient_address, wrap_native>>
        truncated_amount == truncate_amount(amount, decimals(mint))
        normalized_to_native_amount ==
            normalize_amount(to_native_token_amount, decimals(mint))
        token_fee == checked_token_fee(relayer_fee[recipient_chain].fee,
                        decimals(mint), registered_token[mint].swap_rate,
                        sender_config.swap_rate_precision,
                        sender_config.relayer_fee_precision)
        normalized_relayer_fee == normalize_amount(token_fee, decimals(mint))
        normalized_amount == normalize_amount(amount, decimals(mint))
        sum == u64_add(normalized_to_native_amount, normalized_relayer_fee,
                       overflow_checks)
        \* tmp_token_account: staged, delegated, taken by the bridge, closed.
        staged == truncated_amount
        approved == truncated_amount
        bridged == truncate_amount(truncated_amount, decimals(mint))
        tmp_left == staged - bridged
    IN
    IF ~SendAccountsExist(recipient_chain)
    THEN Rejected(op, payer, args, "AccountNotInitialized")
    ELSE IF ~(~sender_config.paused)
    THEN Rejected(op, payer, args, "OutboundTransfersPaused")
    ELSE IF ~registered_token[mint].is_registered
    THEN Rejected(op, payer, args, "TokenNotRegistered")
    ELSE IF ~(recipient_chain > CHAIN_ID_SOLANA /\ ~(recipient_address = 0))
    THEN Rejected(op, payer, args, "InvalidRecipient")
    ELSE IF ~(truncated_amount > 0)
    THEN Rejected(op, payer, args, "ZeroBridgeAmount")
    ELSE IF ~(to_native_token_amount = 0 \/ normalized_to_native_amount > 0)
    THEN Rejected(op, payer, args, "InvalidToNativeAmount")
    ELSE IF token_fee = NoAmount
    THEN Rejected(op, payer, args, "FeeCalculationError")
    ELSE IF sum = Aborted
    THEN Rejected(op, payer, args, "ArithmeticOverflowAbort")
    ELSE IF ~(normalized_amount > sum)
    THEN Rejected(op, payer, args, "InsufficientFunds")
    ELSE IF wrap_native /\ lamports[payer] < truncated_amount
    THEN Rejected(op, payer, args, "InsufficientLamports")
    ELSE IF ~wrap_native /\ token_balance[mint][payer] < truncated_amount
    THEN Rejected(op, payer, args, "InsufficientTokenBalance")
    ELSE IF approved < bridged \/ (tmp_left # 0 /\ mint # native_mint)
    THEN Rejected(op, payer, args, "TokenProgramError")
    ELSE
        /\ IF wrap_native
           THEN /\ lamports' = [lamports EXCEPT ![payer] = @ - truncated_amount + tmp_left]
                /\ UNCHANGED token_balance
           ELSE /\ token_balance' = [token_balance EXCEPT ![mint][payer] = @ - truncated_amount]
                /\ lamports' = [lamports EXCEPT ![payer] = @ + tmp_left]
        /\ custody' = [custody EXCEPT ![mint] = @ + bridged]
        /\ sequence' = sequence + 1
        /\ UNCHANGED <<configVars, registryVars, token_bridge_claim, envVars>>
        /\ CommittedWith(op, payer, args,
                [staged |-> staged, approved |-> approved, bridged |-> bridged,
                 tmp_left |-> tmp_left,
                 payload |-> TransferWithRelay(normalized_relayer_fee,
                                normalized_to_native_amount, recipient_address)])

send_native_tokens_with_payload(payer, mint, amount, to_native_token_amount, recipient_chain, recipient_address, wrap_native) ==
    LET op == "send_native_tokens_with_payload"
        args == <<mint, amount, to_native_token_amount, recipient_chain,
                  recipient_address, wrap_native>>
        truncated_amount == truncate_amount(amount, decimals(mint))
        normalized_to_native_amount ==
            normalize_amount(to_native_token_amount, decimals(mint))
        token_fee == checked_token_fee(relayer_fee[recipient_chain].fee,
                        decimals(mint), registered_token[mint].swap_rate,
                        sender_config.swap_rate_precision,
                        sender_config.relayer_fee_precision)
        normalized_relayer_fee == normalize_amount(token_fee, decimals(mint))
        normalized_amount == normalize_amount(amount, decimals(mint))
        sum == u64_add(normalized_to_native_amount, normalized_relayer_fee,
                       overflow_checks)
        \* tmp_token_account: staged, delegated, taken by the bridge, closed.
        staged == truncated_amount
        approved == truncated_amount
        bridged == truncate_amount(truncated_amount, decimals(mint))
        tmp_left == staged - bridged
    IN
    IF ~SendAccountsExist(recipient_chain)
    THEN Rejected(op, payer, args, "AccountNotInitialized")
    ELSE IF ~(~sender_config.paused)
    THEN Rejected(op, payer, args, "OutboundTransfersPaused")
    ELSE IF ~registered_token[mint].is_registered
    THEN Rejected(op, payer, args, "TokenNotRegistered")
    ELSE IF ~(recipient_chain > CHAIN_ID_SOLANA /\ ~(recipient_address = 0))
    THEN Rejected(op, payer, args, "InvalidRecipient")
    ELSE IF ~(truncated_amount > 0)
    THEN Rejected(op, payer, args, "ZeroBridgeAmount")
    ELSE IF ~(to_native_token_amount = 0 \/ normalized_to_native_amount > 0)
    THEN Rejected(op, payer, args, "InvalidToNativeAmount")
    ELSE IF token_fee = NoAmount
    THEN Rejected(op, payer, args, "FeeCalculationError")
    ELSE IF sum = Aborted
    THEN Rejected(op, payer, args, "ArithmeticOverflowAbort")
    ELSE IF ~(normalized_amount > sum)
    THEN Rejected(op, payer, args, "InsufficientFunds")
    ELSE IF wrap_native /\ ~(mint = native_mint)
    THEN Rejected(op, payer, args, "NativeMintRequired")
    ELSE IF wrap_native /\ lamports[payer] < truncated_amount
    THEN Rejected(op, payer, args, "InsufficientLamports")
    ELSE IF ~wrap_native /\ token_balance[mint][payer] < truncated_amount
    THEN Rejected(op, payer, args, "InsufficientTokenBalance")
    ELSE IF approved < bridged \/ (tmp_left # 0 /\ mint # native_mint)
    THEN Rejected(op, payer, args, "TokenProgramError")
    ELSE
        /\ IF wrap_native
           THEN /\ lamports' = [lamports EXCEPT ![payer] = @ - truncated_amount + tmp_left]
                /\ UNCHANGED token_balance
           ELSE /\ token_balance' = [token_balance EXCEPT ![mint][payer] = @ - truncated_amount]
                /\ lamports' = [lamports EXCEPT ![payer] = @ + tmp_left]
        /\ custody' = [custody EXCEPT ![mint] = @ + bridged]
        /\ sequence' = sequence + 1
        /\ UNCHANGED <<configVars, registryVars, token_bridge_claim, envVars>>
        /\ CommittedWith(op, payer, args,
                [staged |-> staged, approved |-> approved, bridged |-> bridged,
                 tmp_left |-> tmp_left,
                 payload |-> TransferWithRelay(normalized_relayer_fee,
                                normalized_to_native_amount, recipient_address)])

\* Mutant: the wrapped send does not look at the pause switch.
send_wrapped_tokens_with_payload_IgnoresPause(payer, mint, amount, to_native_token_amount, recipient_chain, recipient_address) ==
    LET op == "send_wrapped_tokens_with_payload"
        args == <<mint, amount, to_native_token_amount, recipient_chain,
                  recipient_address>>
        fee == checked_token_fee(relayer_fee[recipient_chain].fee,
                        decimals(mint), registered_token[mint].swap_rate,
                        sender_config.swap_rate_precision,
                        sender_config.relayer_fee_precision)
        sum == u64_add(to_native_token_amount, fee, overflow_checks)
        \* tmp_token_account: staged, delegated, burned by the bridge, closed.
        staged == amount
        approved == amount
        bridged == amount
        tmp_left == staged - bridged
    IN
    IF ~SendAccountsExist(recipient_chain)
    THEN Rejected(op, payer, args, "AccountNotInitialized")
    ELSE IF ~(amount > 0)
    THEN Rejected(op, payer, args, "ZeroBridgeAmount")
    ELSE IF ~registered_token[mint].is_registered
    THEN Rejected(op, payer, args, "TokenNotRegistered")
    ELSE IF ~(recipient_chain > CHAIN_ID_SOLANA /\ ~(recipient_address = 0))
    THEN Rejected(op, payer, args, "InvalidRecipient")
    ELSE IF fee = NoAmount
    THEN Rejected(op, payer, args, "FeeCalculationError")
    ELSE IF sum = Aborted
    THEN Rejected(op, payer, args, "ArithmeticOverflowAbort")
    ELSE IF ~(amount > sum)
    THEN Rejected(op, payer, args, "InsufficientFunds")
    ELSE IF token_balance[mint][payer] < amount
    THEN Rejected(op, payer, args, "InsufficientTokenBalance")
    ELSE IF approved < bridged \/ tmp_left # 0
    THEN Rejected(op, payer, args, "TokenProgramError")
    ELSE
        /\ token_balance' = [token_balance EXCEPT ![mint][payer] = @ - amount]
        /\ sequence' = sequence + 1
        /\ UNCHANGED <<configVars, registryVars, lamports, custody,
                       token_bridge_claim, envVars>>
        /\ CommittedWith(op, payer, args,
                [staged |-> staged, approved |-> approved, bridged |-> bridged,
                 tmp_left |-> tmp_left,
                 payload |-> TransferWithRelay(fee, to_native_token_amount,
                                               recipient_address)])

send_wrapped_tokens_with_payload(payer, mint, amount, to_native_token_amount, recipient_chain, recipient_address) ==
    LET op == "send_wrapped_tokens_with_payload"
        args == <<mint, amount, to_native_token_amount, recipient_chain,
                  recipient_address>>
        fee == checked_token_fee(relayer_fee[recipient_chain].fee,
                        decimals(mint), registered_token[mint].swap_rate,
                        sender_config.swap_rate_precision,
                        sender_config.relayer_fee_precision)
        sum == u64_add(to_native_token_amount, fee, overflow_checks)
        \* tmp_token_account: staged, delegated, burned by the bridge, closed.
        staged == amount
        approved == amount
        bridged == amount
        tmp_left == staged - bridged
    IN
    IF ~SendAccountsExist(recipient_chain)
    THEN Rejected(op, payer, args, "AccountNotInitialized")
    ELSE IF ~(~sender_config.paused)
    THEN Rejected(op, payer, args, "OutboundTransfersPaused")
    ELSE IF ~(amount > 0)
    THEN Rejected(op, payer, args, "ZeroBridgeAmount")
    ELSE IF ~registered_token[mint].is_registered
    THEN Rejected(op, payer, args, "TokenNotRegistered")
    ELSE IF ~(recipient_chain > CHAIN_ID_SOLANA /\ ~(recipient_address = 0))
    THEN Rejected(op, payer, args, "InvalidRecipient")
    ELSE IF fee = NoAmount
    THEN Rejected(op, payer, args, "FeeCalculationError")
    ELSE IF sum = Aborted
    THEN Rejected(op, payer, args, "ArithmeticOverflowAbort")
    ELSE IF ~(amount > sum)
    THEN Rejected(op, payer, args, "InsufficientFunds")
    ELSE IF token_balance[mint][payer] < amount
    THEN Rejected(op, payer, args, "InsufficientTokenBalance")
    ELSE IF approved < bridged \/ tmp_left # 0
    THEN Rejected(op, payer, args, "TokenProgramError")
    ELSE
        /\ token_balance' = [token_balance EXCEPT ![mint][payer] = @ - amount]
        /\ sequence' = sequence + 1
        /\ UNCHANGED <<configVars, registryVars, lamports, custody,
                       token_bridge_claim, envVars>>
        /\ CommittedWith(op, payer, args,
                [staged |-> staged, approved |-> approved, bridged |-> bridged,
                 tmp_left |-> tmp_left,
                 payload |-> TransferWithRelay(fee, to_native_token_amount,
                                               recipient_address)])

(***************************************************************************)
(* Inbound transfers                                                       *)
(***************************************************************************)

\* Result of an unchecked u64 `a - b`: the difference when it is not
\* negative; otherwise the build decides: an abort or the wrapped difference.
u64_sub(a, b, checks) ==
    IF a >= b THEN a - b
    ELSE IF checks THEN Aborted
    ELSE a - b + 2^U64_BITS

\* A claim check that lets every message through.
data_is_empty_Unchecked(msg) == TRUE

\* token_bridge_claim.data_is_empty(): the bridge has no claim record of the
\* message yet.
data_is_empty(msg) == ~token_bridge_claim[msg]

\* The failure signal of calculate_native_swap_amounts (Option::None).
NoSwap == <<NoAmount, NoAmount>>

\* Lamports per SOL, 10^9: the native asset has 9 decimals.
NativeDecimals == decimals(native_mint)

\* Mutant: native_amount_out is not capped by max_native_swap_amount.
calculate_native_swap_amounts_Uncapped(token, dec, native_swap_rate, swap_rate_precision, to_native_token_amount) ==
    IF to_native_token_amount = 0 \/ token.max_native_swap_amount = 0
    THEN <<0, 0>>
    ELSE IF token.swap_rate = 0 \/ native_swap_rate = 0 \/ swap_rate_precision = 0
    THEN NoSwap
    ELSE LET out == MulDiv(to_native_token_amount, token.swap_rate,
                           Pow10(NativeDecimals), native_swap_rate, Pow10(dec))
         IN  IF out > U64_MAX THEN NoSwap
             ELSE IF out = 0 THEN <<0, 0>>
             ELSE <<to_native_token_amount, out>>

\* Mutant: four times the tokens are consumed for the native amount.
calculate_native_swap_amounts_Overcharges(token, dec, native_swap_rate, swap_rate_precision, to_native_token_amount) ==
    IF to_native_token_amount = 0 \/ token.max_native_swap_amount = 0
    THEN <<0, 0>>
    ELSE IF token.swap_rate = 0 \/ native_swap_rate = 0 \/ swap_rate_precision = 0
    THEN NoSwap
    ELSE LET out == MulDiv(to_native_token_amount, token.swap_rate,
                           Pow10(NativeDecimals), native_swap_rate, Pow10(dec))
             capped == MulDiv(token.max_native_swap_amount, native_swap_rate,
                              Pow10(dec), token.swap_rate, Pow10(NativeDecimals))
         IN  IF out > U64_MAX \/ capped > U64_MAX THEN NoSwap
             ELSE IF out > token.max_native_swap_amount
             THEN <<4 * capped, token.max_native_swap_amount>>
             ELSE IF out = 0 THEN <<0, 0>>
             ELSE <<4 * to_native_token_amount, out>>

\* RegisteredToken::calculate_native_swap_amounts: the pair
\* <<token_amount_in, native_amount_out>> for a requested to-native token
\* amount, at the ratio of the token's and the native asset's USD rates;
\* native_amount_out is capped by max_native_swap_amount and token_amount_in
\* is then recomputed from the cap.  NoSwap is the failure signal
\* (a zero divisor or a result beyond u64).
calculate_native_swap_amounts(token, dec, native_swap_rate, swap_rate_precision, to_native_token_amount) ==
    IF to_native_token_amount = 0 \/ token.max_native_swap_amount = 0
    THEN <<0, 0>>
    ELSE IF token.swap_rate = 0 \/ native_swap_rate = 0 \/ swap_rate_precision = 0
    THEN NoSwap
    ELSE LET out == MulDiv(to_native_token_amount, token.swap_rate,
                           Pow10(NativeDecimals), native_swap_rate, Pow10(dec))
             capped == MulDiv(token.max_native_swap_amount, native_swap_rate,
                              Pow10(dec), token.swap_rate, Pow10(NativeDecimals))
         IN  IF out > U64_MAX \/ capped > U64_MAX THEN NoSwap
             ELSE IF out > token.max_native_swap_amount
             THEN <<capped, token.max_native_swap_amount>>
             ELSE IF out = 0 THEN <<0, 0>>
             ELSE <<to_native_token_amount, out>>

\* The outcome of a payout: an error, or the amounts that move.
Payout(err, closed_to_payer, forwarded, to_fee_recipient, to_recipient, tmp_left) ==
    [err |-> err, closed_to_payer |-> closed_to_payer, forwarded |-> forwarded,
     to_fee_recipient |-> to_fee_recipient, to_recipient |-> to_recipient,
     tmp_left |-> tmp_left]

PayoutFails(err) == Payout(err, 0, 0, 0, 0, 0)

\* Mutant: the relayer forwards the whole amount and keeps no fee.
UnwrapPayout_ForwardsAll(payer, recipient, amount, denormalized_relayer_fee) ==
    LET forwarded == u64_sub(amount, denormalized_relayer_fee, overflow_checks)
    IN  IF payer = recipient THEN Payout("Ok", amount, 0, 0, 0, 0)
        ELSE IF forwarded = Aborted THEN PayoutFails("ArithmeticOverflowAbort")
        ELSE IF lamports[payer] + amount < forwarded
        THEN PayoutFails("InsufficientLamports")
        ELSE Payout("Ok", amount, amount, 0, 0, 0)

\* The wrapped SOL branch: the custody account is closed to the payer, who
\* forwards amount - fee lamports to a recipient other than itself.
UnwrapPayout(payer, recipient, amount, denormalized_relayer_fee) ==
    LET forwarded == u64_sub(amount, denormalized_relayer_fee, overflow_checks)
    IN  IF payer = recipient THEN Payout("Ok", amount, 0, 0, 0, 0)
        ELSE IF forwarded = Aborted THEN PayoutFails("ArithmeticOverflowAbort")
        ELSE IF lamports[payer] + amount < forwarded
        THEN PayoutFails("InsufficientLamports")
        ELSE Payout("Ok", amount, forwarded, 0, 0, 0)

\* Mutant: a self redemption is charged like a relayed one.
TokenPayout_ChargesSelf(payer, recipient, mint, amount, denormalized_relayer_fee, denormalized_to_native_token_amount) ==
    LET swap == calculate_native_swap_amounts(registered_token[mint],
                    decimals(mint), registered_token[native_mint].swap_rate,
                    redeemer_config.swap_rate_precision,
                    denormalized_to_native_token_amount)
        token_amount_in == swap[1]
        native_amount_out == swap[2]
        amount_for_fee_recipient ==
            u64_add(token_amount_in, denormalized_relayer_fee, overflow_checks)
        rest == u64_sub(amount, amount_for_fee_recipient, overflow_checks)
    IN  IF swap = NoSwap THEN PayoutFails("InvalidSwapCalculation")
        ELSE IF native_amount_out > 0 /\ lamports[payer] < native_amount_out
        THEN PayoutFails("InsufficientLamports")
        ELSE IF amount_for_fee_recipient = Aborted
        THEN PayoutFails("ArithmeticOverflowAbort")
        ELSE IF amount_for_fee_recipient > amount
        THEN PayoutFails("InsufficientTokenBalance")
        ELSE IF rest = Aborted THEN PayoutFails("ArithmeticOverflowAbort")
        ELSE IF rest > amount - amount_for_fee_recipient
        THEN PayoutFails("InsufficientTokenBalance")
        ELSE IF amount - amount_for_fee_recipient - rest # 0
        THEN PayoutFails("TokenProgramError")
        ELSE Payout("Ok", 0, native_amount_out, amount_for_fee_recipient, rest, 0)

\* Mutant: the fee recipient is paid the relayer fee only, not the tokens
\* swapped for lamports.
TokenPayout_FeeOnly(payer, recipient, mint, amount, denormalized_relayer_fee, denormalized_to_native_token_amount) ==
    LET swap == calculate_native_swap_amounts(registered_token[mint],
                    decimals(mint), registered_token[native_mint].swap_rate,
                    redeemer_config.swap_rate_precision,
                    denormalized_to_native_token_amount)
        token_amount_in == swap[1]
        native_amount_out == swap[2]
        amount_for_fee_recipient ==
            u64_add(token_amount_in, denormalized_relayer_fee, overflow_checks)
        rest == u64_sub(amount, amount_for_fee_recipient, overflow_checks)
    IN  IF payer = recipient THEN Payout("Ok", 0, 0, 0, amount, 0)
        ELSE IF swap = NoSwap THEN PayoutFails("InvalidSwapCalculation")
        ELSE IF native_amount_out > 0 /\ lamports[payer] < native_amount_out
        THEN PayoutFails("InsufficientLamports")
        ELSE IF amount_for_fee_recipient = Aborted
        THEN PayoutFails("ArithmeticOverflowAbort")
        ELSE IF amount_for_fee_recipient > amount
        THEN PayoutFails("InsufficientTokenBalance")
        ELSE IF rest = Aborted THEN PayoutFails("ArithmeticOverflowAbort")
        ELSE IF rest > amount - amount_for_fee_recipient
        THEN PayoutFails("InsufficientTokenBalance")
        ELSE IF amount - amount_for_fee_recipient - rest # 0
        THEN PayoutFails("TokenProgramError")
        ELSE Payout("Ok", 0, native_amount_out, denormalized_relayer_fee,
                    amount - denormalized_relayer_fee, 0)

\* Mutant: the tokens swapped for lamports stay in the custody account.
TokenPayout_KeepsSwap(payer, recipient, mint, amount, denormalized_relayer_fee, denormalized_to_native_token_amount) ==
    LET swap == calculate_native_swap_amounts(registered_token[mint],
                    decimals(mint), registered_token[native_mint].swap_rate,
                    redeemer_config.swap_rate_precision,
                    denormalized_to_native_token_amount)
        token_amount_in == swap[1]
        native_amount_out == swap[2]
        amount_for_fee_recipient ==
            u64_add(token_amount_in, denormalized_relayer_fee, overflow_checks)
        rest == u64_sub(amount, amount_for_fee_recipient, overflow_checks)
    IN  IF payer = recipient THEN Payout("Ok", 0, 0, 0, amount, 0)
        ELSE IF swap = NoSwap THEN PayoutFails("InvalidSwapCalculation")
        ELSE IF native_amount_out > 0 /\ lamports[payer] < native_amount_out
        THEN PayoutFails("InsufficientLamports")
        ELSE IF amount_for_fee_recipient = Aborted
        THEN PayoutFails("ArithmeticOverflowAbort")
        ELSE IF amount_for_fee_recipient > amount
        THEN PayoutFails("InsufficientTokenBalance")
        ELSE IF rest = Aborted THEN PayoutFails("ArithmeticOverflowAbort")
        ELSE IF rest > amount - amount_for_fee_recipient
        THEN PayoutFails("InsufficientTokenBalance")
        ELSE Payout("Ok", 0, native_amount_out, denormalized_relayer_fee, rest,
                    token_amount_in)

\* The token branch: a self redemption pays the whole amount to the
\* recipient; a relayer pays the native swap out of its own lamports, and
\* the custody account pays token_amount_in + fee to the fee recipient and
\* the rest to the recipient.
TokenPayout(payer, recipient, mint, amount, denormalized_relayer_fee, denormalized_to_native_token_amount) ==
    LET swap == calculate_native_swap_amounts(registered_token[mint],
                    decimals(mint), registered_token[native_mint].swap_rate,
                    redeemer_config.swap_rate_precision,
                    denormalized_to_native_token_amount)
        token_amount_in == swap[1]
        native_amount_out == swap[2]
        amount_for_fee_recipient ==
            u64_add(token_amount_in, denormalized_relayer_fee, overflow_checks)
        rest == u64_sub(amount, amount_for_fee_recipient, overflow_checks)
    IN  IF payer = recipient THEN Payout("Ok", 0, 0, 0, amount, 0)
        ELSE IF swap = NoSwap THEN PayoutFails("InvalidSwapCalculation")
        ELSE IF native_amount_out > 0 /\ lamports[payer] < native_amount_out
        THEN PayoutFails("InsufficientLamports")
        ELSE IF amount_for_fee_recipient = Aborted
        THEN PayoutFails("ArithmeticOverflowAbort")
        ELSE IF amount_for_fee_recipient > amount
        THEN PayoutFails("InsufficientTokenBalance")
        ELSE IF rest = Aborted THEN PayoutFails("ArithmeticOverflowAbort")
        ELSE IF rest > amount - amount_for_fee_recipient
        THEN PayoutFails("InsufficientTokenBalance")
        ELSE IF amount - amount_for_fee_recipient - rest # 0
        THEN PayoutFails("TokenProgramError")
        ELSE Payout("Ok", 0, native_amount_out, amount_for_fee_recipient, rest, 0)

\* Mutant: a redemption marks every message as claimed.
Redeemed_ClaimsAll(op, payer, msg, recipient, mint, amount, pay) ==
    /\ token_bridge_claim' = [h \in Msgs |-> TRUE]
    /\ custody' = IF mint \in NativeMints
                  THEN [custody EXCEPT ![mint] = @ - amount] ELSE custody
    /\ lamports' = [k \in Keys |-> lamports[k]
            + (IF k = payer THEN pay.closed_to_payer - pay.forwarded ELSE 0)
            + (IF k = recipient THEN pay.forwarded ELSE 0)]
    /\ token_balance' = [token_balance EXCEPT ![mint] = [k \in Keys |-> @[k]
            + (IF k = recipient THEN pay.to_recipient ELSE 0)
            + (IF k = redeemer_config.fee_recipient
               THEN pay.to_fee_recipient ELSE 0)]]
    /\ UNCHANGED <<configVars, registryVars, sequence, envVars>>
    /\ CommittedWith(op, payer, <<msg, recipient>>,
            [deposited |-> amount, closed_to_payer |-> pay.closed_to_payer,
             forwarded |-> pay.forwarded,
             to_fee_recipient |-> pay.to_fee_recipient,
             to_recipient |-> pay.to_recipient, tmp_left |-> pay.tmp_left])

\* The writes of a successful redemption: the claim record of the bridge,
\* the custody the bridge releases (native mints; a wrapped mint is minted),
\* and the payout.
Redeemed(op, payer, msg, recipient, mint, amount, pay) ==
    /\ token_bridge_claim' = [token_bridge_claim EXCEPT ![msg] = TRUE]
    /\ custody' = IF mint \in NativeMints
                  THEN [custody EXCEPT ![mint] = @ - amount] ELSE custody
    /\ lamports' = [k \in Keys |-> lamports[k]
            + (IF k = payer THEN pay.closed_to_payer - pay.forwarded ELSE 0)
            + (IF k = recipient THEN pay.forwarded ELSE 0)]
    /\ token_balance' = [token_balance EXCEPT ![mint] = [k \in Keys |-> @[k]
            + (IF k = recipient THEN pay.to_recipient ELSE 0)
            + (IF k = redeemer_config.fee_recipient
               THEN pay.to_fee_recipient ELSE 0)]]
    /\ UNCHANGED <<configVars, registryVars, sequence, envVars>>
    /\ CommittedWith(op, payer, <<msg, recipient>>,
            [deposited |-> amount, closed_to_payer |-> pay.closed_to_payer,
             forwarded |-> pay.forwarded,
             to_fee_recipient |-> pay.to_fee_recipient,
             to_recipient |-> pay.to_recipient, tmp_left |-> pay.tmp_left])

\* Mutant: the native redeem does not compare the recipient with the payload.
redeem_native_transfer_with_payload_AnyRecipient(payer, msg, recipient) ==
    LET op == "redeem_native_transfer_with_payload"
        args == <<msg, recipient>>
        mint == vaa[msg].mint
        amount == denormalize_amount(vaa[msg].amount, decimals(mint))
        denormalized_relayer_fee ==
            denormalize_amount(vaa[msg].target_relayer_fee, decimals(mint))
        pay == IF mint = native_mint
               THEN UnwrapPayout(payer, recipient, amount, denormalized_relayer_fee)
               ELSE TokenPayout(payer, recipient, mint, amount,
                        denormalized_relayer_fee,
                        denormalize_amount(vaa[msg].to_native_token_amount,
                                           decimals(mint)))
    IN
    IF ~initialized
    THEN Rejected(op, payer, args, "AccountNotInitialized")
    ELSE IF ~data_is_empty(msg)
    THEN Rejected(op, payer, args, "AlreadyRedeemed")
    ELSE IF ~registered_token[mint].is_registered
    THEN Rejected(op, payer, args, "TokenNotRegistered")
    ELSE IF token_bridge_claim[msg] \/ custody[mint] < amount
    THEN Rejected(op, payer, args, "TokenBridgeError")
    ELSE IF pay.err # "Ok"
    THEN Rejected(op, payer, args, pay.err)
    ELSE Redeemed(op, payer, msg, recipient, mint, amount, pay)

redeem_native_transfer_with_payload(payer, msg, recipient) ==
    LET op == "redeem_native_transfer_with_payload"
        args == <<msg, recipient>>
        mint == vaa[msg].mint
        amount == denormalize_amount(vaa[msg].amount, decimals(mint))
        denormalized_relayer_fee ==
            denormalize_amount(vaa[msg].target_relayer_fee, decimals(mint))
        pay == IF mint = native_mint
               THEN UnwrapPayout(payer, recipient, amount, denormalized_relayer_fee)
               ELSE TokenPayout(payer, recipient, mint, amount,
                        denormalized_relayer_fee,
                        denormalize_amount(vaa[msg].to_native_token_amount,
                                           decimals(mint)))
    IN
    IF ~initialized
    THEN Rejected(op, payer, args, "AccountNotInitialized")
    ELSE IF ~data_is_empty(msg)
    THEN Rejected(op, payer, args, "AlreadyRedeemed")
    ELSE IF ~registered_token[mint].is_registered
    THEN Rejected(op, payer, args, "TokenNotRegistered")
    ELSE IF ~(recipient = vaa[msg].recipient)
    THEN Rejected(op, payer, args, "InvalidRecipient")
    ELSE IF token_bridge_claim[msg] \/ custody[mint] < amount
    THEN Rejected(op, payer, args, "TokenBridgeError")
    ELSE IF pay.err # "Ok"
    THEN Rejected(op, payer, args, pay.err)
    ELSE Redeemed(op, payer, msg, recipient, mint, amount, pay)

\* Mutant: the wrapped redeem is refused while transfers are paused.
redeem_wrapped_transfer_with_payload_Pausable(payer, msg, recipient) ==
    LET op == "redeem_wrapped_transfer_with_payload"
        args == <<msg, recipient>>
        mint == vaa[msg].mint
        amount == denormalize_amount(vaa[msg].amount, decimals(mint))
        denormalized_relayer_fee ==
            denormalize_amount(vaa[msg].target_relayer_fee, decimals(mint))
        pay == TokenPayout(payer, recipient, mint, amount,
                    denormalized_relayer_fee,
                    denormalize_amount(vaa[msg].to_native_token_amount,
                                       decimals(mint)))
    IN
    IF ~initialized
    THEN Rejected(op, payer, args, "AccountNotInitialized")
    ELSE IF sender_config.paused
    THEN Rejected(op, payer, args, "OutboundTransfersPaused")
    ELSE IF ~data_is_empty(msg)
    THEN Rejected(op, payer, args, "AlreadyRedeemed")
    ELSE IF ~registered_token[mint].is_registered
    THEN Rejected(op, payer, args, "TokenNotRegistered")
    ELSE IF ~(recipient = vaa[msg].recipient)
    THEN Rejected(op, payer, args, "InvalidRecipient")
    ELSE IF token_bridge_claim[msg]
    THEN Rejected(op, payer, args, "TokenBridgeError")
    ELSE IF pay.err # "Ok"
    THEN Rejected(op, payer, args, pay.err)
    ELSE Redeemed(op, payer, msg, recipient, mint, amount, pay)

\* Mutant: the wrapped redeem checks the recipient before the registration.
redeem_wrapped_transfer_with_payload_RecipientFirst(payer, msg, recipient) ==
    LET op == "redeem_wrapped_transfer_with_payload"
        args == <<msg, recipient>>
        mint == vaa[msg].mint
        amount == denormalize_amount(vaa[msg].amount, decimals(mint))
        denormalized_relayer_fee ==
            denormalize_amount(vaa[msg].target_relayer_fee, decimals(mint))
        pay == TokenPayout(payer, recipient, mint, amount,
                    denormalized_relayer_fee,
                    denormalize_amount(vaa[msg].to_native_token_amount,
                                       decimals(mint)))
    IN
    IF ~initialized
    THEN Rejected(op, payer, args, "AccountNotInitialized")
    ELSE IF ~data_is_empty(msg)
    THEN Rejected(op, payer, args, "AlreadyRedeemed")
    ELSE IF ~(recipient = vaa[msg].recipient)
    THEN Rejected(op, payer, args, "InvalidRecipient")
    ELSE IF ~registered_token[mint].is_registered
    THEN Rejected(op, payer, args, "TokenNotRegistered")
    ELSE IF token_bridge_claim[msg]
    THEN Rejected(op, payer, args, "TokenBridgeError")
    ELSE IF pay.err # "Ok"
    THEN Rejected(op, payer, args, pay.err)
    ELSE Redeemed(op, payer, msg, recipient, mint, amount, pay)

redeem_wrapped_transfer_with_payload(payer, msg, recipient) ==
    LET op == "redeem_wrapped_transfer_with_payload"
        args == <<msg, recipient>>
        mint == vaa[msg].mint
        amount == denormalize_amount(vaa[msg].amount, decimals(mint))
        denormalized_relayer_fee ==
            denormalize_amount(vaa[msg].target_relayer_fee, decimals(mint))
        pay == TokenPayout(payer, recipient, mint, amount,
                    denormalized_relayer_fee,
                    denormalize_amount(vaa[msg].to_native_token_amount,
                                       decimals(mint)))
    IN
    IF ~initialized
    THEN Rejected(op, payer, args, "AccountNotInitialized")
    ELSE IF ~data_is_empty(msg)
    THEN Rejected(op, payer, args, "AlreadyRedeemed")
    ELSE IF ~registered_token[mint].is_registered
    THEN Rejected(op, payer, args, "TokenNotRegistered")
    ELSE IF ~(recipient = vaa[msg].recipient)
    THEN Rejected(op, payer, args, "InvalidRecipient")
    ELSE IF token_bridge_claim[msg]
    THEN Rejected(op, payer, args, "TokenBridgeError")
    ELSE IF pay.err # "Ok"
    THEN Rejected(op, payer, args, pay.err)
    ELSE Redeemed(op, payer, msg, recipient, mint, amount, pay)

(***************************************************************************)
(* A deployment right after a successful initialize by `owner`             *)
(***************************************************************************)

Deployed(owner, fee_recipient, assistant) ==
    /\ initialized = TRUE
    /\ sender_config = [owner |-> owner, paused |-> FALSE,
                        relayer_fee_precision |-> initial_precision,
                        swap_rate_precision |-> initial_precision]
    /\ redeemer_config = [owner |-> owner, fee_recipient |-> fee_recipient,
                          relayer_fee_precision |-> initial_precision,
                          swap_rate_precision |-> initial_precision]
    /\ owner_config = [owner |-> owner, assistant |-> assistant,
                       pending_owner |-> None]
    /\ registered_token = [m \in Mints |->
            [swap_rate |-> 0, max_native_swap_amount |-> 0, is_registered |-> FALSE]]
    /\ foreign_contract = [c \in Chains |->
            [exists |-> FALSE, chain |-> 0, address |-> 0]]
    /\ relayer_fee = [c \in Chains |-> [exists |-> FALSE, chain |-> 0, fee |-> 0]]
    /\ last = [op |-> "initialize", payer |-> owner,
               args |-> <<fee_recipient, assistant>>, err |-> "Ok",
               prior_pending |-> None, effects |-> NoEffects]

(***************************************************************************)
(* Token registration surface                                              *)
(***************************************************************************)

\* Values of the swap_rate argument.
SwapRates == {0, 1, 2}

\* Values of the max_native_swap_amount argument.
MaxSwapAmounts == {0, 1}

InitToken ==
    /\ \E owner \in {1, 2} : Deployed(owner, 3, 2)
    /\ EmptyLedger
    /\ QuietEnvironment

NextToken ==
    \/ \E owner \in Signers, mint \in Mints, r \in SwapRates, m \in MaxSwapAmounts :
            register_token(owner, mint, r, m)
    \/ \E owner \in Signers, mint \in Mints : deregister_token(owner, mint)
    \/ \E payer \in Signers, mint \in Mints, r \in SwapRates :
            update_swap_rate(payer, mint, r)
    \/ \E owner \in Signers, mint \in Mints, m \in MaxSwapAmounts :
            update_max_native_swap_amount(owner, mint, m)

SpecToken == InitToken /\ [][NextToken]_vars

(***************************************************************************)
(* The owner-only instructions, with the handshake that changes the owner  *)
(***************************************************************************)

InitAuth == Deployed(1, 3, 2) /\ EmptyLedger /\ QuietEnvironment

NextAuth ==
    \/ \E owner \in Signers : register_foreign_contract(owner, 2, 1)
    \/ \E owner \in Signers : register_token(owner, "USDC", 1, 1)
    \/ \E owner \in Signers : deregister_token(owner, "USDC")
    \/ \E owner \in Signers : update_relayer_fee_precision(owner, 1)
    \/ \E owner \in Signers : update_swap_rate_precision(owner, 1)
    \/ \E owner \in Signers : update_max_native_swap_amount(owner, "USDC", 0)
    \/ \E owner \in Signers, paused \in BOOLEAN : set_pause_for_transfers(owner, paused)
    \/ \E owner \in Signers, new_owner \in Signers :
            submit_ownership_transfer_request(owner, new_owner)
    \/ \E owner \in Signers : cancel_ownership_transfer_request(owner)
    \/ \E payer \in Signers : confirm_ownership_transfer_request(payer)

SpecAuth == InitAuth /\ [][NextAuth]_vars


(***************************************************************************)
(* Outbound transfer surface                                               *)
(***************************************************************************)

\* A deployment with all three tokens registered at one USD per whole token,
\* chain 2 registered, funded senders, and either build profile.
InitSend ==
    /\ initialized = TRUE
    /\ sender_config = [owner |-> 1, paused |-> FALSE,
                        relayer_fee_precision |-> initial_precision,
                        swap_rate_precision |-> initial_precision]
    /\ redeemer_config = [owner |-> 1, fee_recipient |-> 3,
                          relayer_fee_precision |-> initial_precision,
                          swap_rate_precision |-> initial_precision]
    /\ owner_config = [owner |-> 1, assistant |-> 2, pending_owner |-> None]
    /\ registered_token = [m \in Mints |->
            [swap_rate |-> IF m = "USDC" THEN 1000000 ELSE 100000000,
             max_native_swap_amount |-> IF m = native_mint THEN 0 ELSE 1,
             is_registered |-> TRUE]]
    /\ foreign_contract = [c \in Chains |->
            IF c = 2 THEN [exists |-> TRUE, chain |-> 2, address |-> 1]
            ELSE [exists |-> FALSE, chain |-> 0, address |-> 0]]
    /\ relayer_fee = [c \in Chains |->
            IF c = 2 THEN [exists |-> TRUE, chain |-> 2, fee |-> 1]
            ELSE [exists |-> FALSE, chain |-> 0, fee |-> 0]]
    /\ token_balance = [m \in Mints |-> [k \in Keys |->
            IF k # 3 THEN 0 ELSE IF m = native_mint THEN 20 ELSE 10]]
    /\ lamports = [k \in Keys |-> IF k = 3 THEN 10 ELSE 0]
    /\ custody = [m \in Mints |-> 0]
    /\ sequence = 0
    /\ token_bridge_claim = [h \in Msgs |-> FALSE]
    /\ vaa = [h \in Msgs |-> Vaa("WETH", 1, 0, 0, 1)]
    /\ overflow_checks \in BOOLEAN
    /\ last = [op |-> "none", payer |-> ZeroKey, args |-> <<>>, err |-> "Ok",
               prior_pending |-> None, effects |-> NoEffects]

\* Values of the amount argument.
SendAmounts == {5, 10, 25}

\* Values of the to_native_token_amount argument.
ToNativeAmounts == {0, 10, U64_MAX}

NextSend ==
    \/ \E mint \in NativeMints, amount \in SendAmounts,
          to_native_token_amount \in ToNativeAmounts, wrap_native \in BOOLEAN :
            send_native_tokens_with_payload(3, mint, amount, to_native_token_amount,
                2, 1, wrap_native)
    \/ \E amount \in SendAmounts, to_native_token_amount \in ToNativeAmounts :
            send_wrapped_tokens_with_payload(3, "WETH", amount,
                to_native_token_amount, 2, 1)
    \/ \E fee \in Fees : update_relayer_fee(1, 2, fee)

SpecSend == InitSend /\ [][NextSend]_vars

(***************************************************************************)
(* Outbound transfers under the pause switch                               *)
(***************************************************************************)

\* The deployment of InitSend after set_pause_for_transfers(true).
InitPause ==
    /\ initialized = TRUE
    /\ sender_config = [owner |-> 1, paused |-> TRUE,
                        relayer_fee_precision |-> initial_precision,
                        swap_rate_precision |-> initial_precision]
    /\ redeemer_config = [owner |-> 1, fee_recipient |-> 3,
                          relayer_fee_precision |-> initial_precision,
                          swap_rate_precision |-> initial_precision]
    /\ owner_config = [owner |-> 1, assistant |-> 2, pending_owner |-> None]
    /\ registered_token = [m \in Mints |->
            [swap_rate |-> IF m = "USDC" THEN 1000000 ELSE 100000000,
             max_native_swap_amount |-> IF m = native_mint THEN 0 ELSE 1,
             is_registered |-> TRUE]]
    /\ foreign_contract = [c \in Chains |->
            IF c = 2 THEN [exists |-> TRUE, chain |-> 2, address |-> 1]
            ELSE [exists |-> FALSE, chain |-> 0, address |-> 0]]
    /\ relayer_fee = [c \in Chains |->
            IF c = 2 THEN [exists |-> TRUE, chain |-> 2, fee |-> 1]
            ELSE [exists |-> FALSE, chain |-> 0, fee |-> 0]]
    /\ token_balance = [m \in Mints |-> [k \in Keys |->
            IF k # 3 THEN 0 ELSE IF m = native_mint THEN 20 ELSE 10]]
    /\ lamports = [k \in Keys |-> IF k = 3 THEN 20 ELSE 0]
    /\ custody = [m \in Mints |-> 0]
    /\ sequence = 0
    /\ token_bridge_claim = [h \in Msgs |-> FALSE]
    /\ vaa = [h \in Msgs |-> Vaa("WETH", 1, 0, 0, 1)]
    /\ overflow_checks \in BOOLEAN
    /\ last = [op |-> "set_pause_for_transfers", payer |-> 1, args |-> <<TRUE>>,
               err |-> "Ok", prior_pending |-> None, effects |-> NoEffects]

NextPause ==
    \/ \E mint \in NativeMints, amount \in {5, 10, 20},
          to_native_token_amount \in {0, 10}, wrap_native \in BOOLEAN :
            send_native_tokens_with_payload(3, mint, amount, to_native_token_amount,
                2, 1, wrap_native)
    \/ \E amount \in {0, 5, 10}, to_native_token_amount \in {0, 10} :
            send_wrapped_tokens_with_payload(3, "WETH", amount,
                to_native_token_amount, 2, 1)
    \/ \E paused \in BOOLEAN : set_pause_for_transfers(1, paused)

SpecPause == InitPause /\ [][NextPause]_vars

(***************************************************************************)
(* Outbound transfers that fail several preconditions at once              *)
(***************************************************************************)

\* The swap rate the tokens of InitSend are registered at.
SendSwapRate(mint) == IF mint = "USDC" THEN 1000000 ELSE 100000000

NextSendChecks ==
    \/ \E mint \in NativeMints, amount \in {5, 10}, to_native_token_amount \in {0, 5},
          recipient_address \in {0, 1} :
            send_native_tokens_with_payload(3, mint, amount, to_native_token_amount,
                2, recipient_address, FALSE)
    \/ \E amount \in {0, 10}, to_native_token_amount \in {0, 10},
          recipient_address \in {0, 1} :
            send_wrapped_tokens_with_payload(3, "WETH", amount,
                to_native_token_amount, 2, recipient_address)
    \/ \E paused \in BOOLEAN : set_pause_for_transfers(1, paused)
    \/ \E mint \in Mints : deregister_token(1, mint)
    \/ \E mint \in Mints : register_token(1, mint, SendSwapRate(mint),
                                IF mint = native_mint THEN 0 ELSE 1)

SpecSendChecks == InitSend /\ [][NextSendChecks]_vars

(***************************************************************************)
(* Inbound transfer surface                                                *)
(***************************************************************************)

\* Normalized amounts, relayer fees and to-native amounts of the messages.
VaaAmounts == {5}
VaaFees == {0, 1, 6}
VaaToNative == {0, 2}

\* The swap rate each token is registered at: one lamport per smallest unit
\* of every token.
RedeemSwapRate(mint) ==
    IF mint = native_mint THEN 1000 ELSE IF mint = "USDC" THEN 1 ELSE 100

\* A deployment with all tokens registered, custody of the native mints
\* funded by earlier sends, a relayer (3) holding lamports, and two attested
\* messages for recipient 2: message 1 of a native mint, message 2 of the
\* wrapped mint.
InitRedeem ==
    /\ initialized = TRUE
    /\ sender_config = [owner |-> 1, paused |-> FALSE,
                        relayer_fee_precision |-> initial_precision,
                        swap_rate_precision |-> initial_precision]
    /\ redeemer_config = [owner |-> 1, fee_recipient |-> 3,
                          relayer_fee_precision |-> initial_precision,
                          swap_rate_precision |-> initial_precision]
    /\ owner_config = [owner |-> 1, assistant |-> 2, pending_owner |-> None]
    /\ registered_token = [m \in Mints |->
            [swap_rate |-> RedeemSwapRate(m),
             max_native_swap_amount |-> IF m = native_mint THEN 0 ELSE 1,
             is_registered |-> TRUE]]
    /\ foreign_contract = [c \in Chains |->
            IF c = 2 THEN [exists |-> TRUE, chain |-> 2, address |-> 1]
            ELSE [exists |-> FALSE, chain |-> 0, address |-> 0]]
    /\ relayer_fee = [c \in Chains |->
            IF c = 2 THEN [exists |-> TRUE, chain |-> 2, fee |-> 1]
            ELSE [exists |-> FALSE, chain |-> 0, fee |-> 0]]
    /\ token_balance = [m \in Mints |-> [k \in Keys |-> 0]]
    /\ lamports = [k \in Keys |-> IF k = 3 THEN 5 ELSE 0]
    /\ custody = [m \in Mints |-> IF m \in NativeMints THEN 50 ELSE 0]
    /\ sequence = 0
    /\ token_bridge_claim = [h \in Msgs |-> FALSE]
    /\ \E m1 \in NativeMints, a \in VaaAmounts, f1, f2 \in VaaFees,
          t1, t2 \in VaaToNative :
            vaa = [h \in Msgs |-> IF h = 1 THEN Vaa(m1, a, f1, t1, 2)
                                  ELSE Vaa("WETH", a, f2, t2, 2)]
    /\ overflow_checks \in BOOLEAN
    /\ last = [op |-> "none", payer |-> ZeroKey, args |-> <<>>, err |-> "Ok",
               prior_pending |-> None, effects |-> NoEffects]

NextRedeem ==
    \/ \E payer \in {2, 3}, msg \in Msgs, recipient \in {2, 3} :
        /\ vaa[msg].mint \in NativeMints
        /\ redeem_native_transfer_with_payload(payer, msg, recipient)
    \/ \E payer \in {2, 3}, msg \in Msgs, recipient \in {2, 3} :
        /\ vaa[msg].mint \notin NativeMints
        /\ redeem_wrapped_transfer_with_payload(payer, msg, recipient)
    \/ \E mint \in {"USDC", "WETH"} : deregister_token(1, mint)
    \/ \E mint \in {"USDC", "WETH"} :
            register_token(1, mint, RedeemSwapRate(mint), 1)

SpecRedeem == InitRedeem /\ [][NextRedeem]_vars

(***************************************************************************)
(* Inbound transfers under the pause switch                                *)
(***************************************************************************)

NextRedeemPause ==
    \/ \E payer \in {2, 3}, msg \in Msgs, recipient \in {2, 3} :
        /\ vaa[msg].mint \in NativeMints
        /\ redeem_native_transfer_with_payload(payer, msg, recipient)
    \/ \E payer \in {2, 3}, msg \in Msgs, recipient \in {2, 3} :
        /\ vaa[msg].mint \notin NativeMints
        /\ redeem_wrapped_transfer_with_payload(payer, msg, recipient)
    \/ \E paused \in BOOLEAN : set_pause_for_transfers(1, paused)

SpecRedeemPause == InitRedeem /\ [][NextRedeemPause]_vars

(***************************************************************************)
(* The whole instruction surface on one deployment                         *)
(***************************************************************************)

\* The funded deployment of InitSend with the custody of the native mints
\* funded by earlier sends and two attested messages for recipient 2: a
\* USDC transfer with a to-native request, and a WETH transfer whose fee
\* exceeds its principal.
InitAll ==
    /\ initialized = TRUE
    /\ sender_config = [owner |-> 1, paused |-> FALSE,
                        relayer_fee_precision |-> initial_precision,
                        swap_rate_precision |-> initial_precision]
    /\ redeemer_config = [owner |-> 1, fee_recipient |-> 3,
                          relayer_fee_precision |-> initial_precision,
                          swap_rate_precision |-> initial_precision]
    /\ owner_config = [owner |-> 1, assistant |-> 2, pending_owner |-> None]
    /\ registered_token = [m \in Mints |->
            [swap_rate |-> IF m = "USDC" THEN 1000000 ELSE 100000000,
             max_native_swap_amount |-> IF m = native_mint THEN 0 ELSE 1,
             is_registered |-> TRUE]]
    /\ foreign_contract = [c \in Chains |->
            IF c = 2 THEN [exists |-> TRUE, chain |-> 2, address |-> 1]
            ELSE [exists |-> FALSE, chain |-> 0, address |-> 0]]
    /\ relayer_fee = [c \in Chains |->
            IF c = 2 THEN [exists |-> TRUE, chain |-> 2, fee |-> 1]
            ELSE [exists |-> FALSE, chain |-> 0, fee |-> 0]]
    /\ token_balance = [m \in Mints |-> [k \in Keys |-> IF k = 3 THEN 10 ELSE 0]]
    /\ lamports = [k \in Keys |-> IF k = 3 THEN 10 ELSE 0]
    /\ custody = [m \in Mints |-> IF m \in NativeMints THEN 50 ELSE 0]
    /\ sequence = 0
    /\ token_bridge_claim = [h \in Msgs |-> FALSE]
    /\ vaa = [h \in Msgs |-> IF h = 1 THEN Vaa("USDC", 5, 1, 2, 2)
                             ELSE Vaa("WETH", 5, 6, 0, 2)]
    /\ overflow_checks \in BOOLEAN
    /\ last = [op |-> "none", payer |-> ZeroKey, args |-> <<>>, err |-> "Ok",
               prior_pending |-> None, effects |-> NoEffects]

NextAll ==
    \/ \E amount \in {5, 10}, to_native_token_amount \in {0, U64_MAX},
          recipient_address \in {0, 1} :
            send_native_tokens_with_payload(3, "USDC", amount,
                to_native_token_amount, 2, recipient_address, FALSE)
    \/ \E amount \in {0, 10} :
            send_wrapped_tokens_with_payload(3, "WETH", amount, 0, 2, 1)
    \/ \E payer \in {2, 3}, recipient \in {2, 3} :
            redeem_native_transfer_with_payload(payer, 1, recipient)
    \/ \E payer \in {2, 3}, recipient \in {2, 3} :
            redeem_wrapped_transfer_with_payload(payer, 2, recipient)
    \/ \E owner \in {1, 2} : deregister_token(owner, "USDC")
    \/ \E swap_rate \in {0, 1000000} : register_token(1, "USDC", swap_rate, 1)
    \/ \E paused \in BOOLEAN : set_pause_for_transfers(1, paused)
    \/ \E payer \in {2, 3}, fee \in Fees : update_relayer_fee(payer, 2, fee)

SpecAll == InitAll /\ [][NextAll]_vars

(***************************************************************************)
(* Properties                                                              *)
(***************************************************************************)

\* The owner fields of SenderConfig, RedeemerConfig and OwnerConfig.
Owners == <<sender_config.owner, redeemer_config.owner, owner_config.owner>>

\* C3: every RegisteredToken record is either registered with swap_rate > 0,
\* or not registered with swap_rate = 0 and max_native_swap_amount = 0,
\* whatever register_token, deregister_token, update_swap_rate and
\* update_max_native_swap_amount calls were made.
C3_RegisteredTokenAllOrNothing ==
    \A m \in Mints :
        LET t == registered_token[m] IN
        /\ t.is_registered => t.swap_rate > 0
        /\ ~t.is_registered => t.swap_rate = 0 /\ t.max_native_swap_amount = 0

\* A token was deregistered while another one is registered with a nonzero
\* maximum and an updated rate.
C3_Witness ==
    /\ last.op = "deregister_token" /\ last.err = "Ok"
    /\ ~registered_token[last.args[1]].is_registered
    /\ \E m \in Mints :
        /\ registered_token[m].is_registered
        /\ registered_token[m].max_native_swap_amount > 0
        /\ registered_token[m].swap_rate = 2

\* C4: the native mint's record always has max_native_swap_amount = 0, and
\* register_token or update_max_native_swap_amount for the native mint with a
\* nonzero maximum is rejected and changes nothing; the rejection is
\* SwapsNotAllowedForNativeMint whenever the checks made before it pass.
C4_NativeMintNeverSwaps ==
    [][ /\ registered_token'[native_mint].max_native_swap_amount = 0
        /\ ( /\ last'.op \in {"register_token", "update_max_native_swap_amount"}
             /\ last'.args[1] = native_mint
             /\ last'.args[Len(last'.args)] # 0 )
           => /\ last'.err # "Ok"
              /\ UNCHANGED progVars
              /\ ( /\ initialized
                   /\ last'.payer = owner_config.owner
                   /\ last'.op = "register_token" =>
                        /\ ~registered_token[native_mint].is_registered
                        /\ last'.args[2] > 0
                   /\ last'.op = "update_max_native_swap_amount" =>
                        registered_token[native_mint].is_registered )
                 => last'.err = "SwapsNotAllowedForNativeMint"
      ]_vars

\* A nonzero maximum was refused for the registered native mint.
C4_Witness ==
    /\ last.op = "update_max_native_swap_amount"
    /\ last.args = <<native_mint, 1>>
    /\ last.err = "SwapsNotAllowedForNativeMint"
    /\ registered_token[native_mint].is_registered

\* C5: a successful submit(X) records X as the pending owner and moves no
\* owner field; a confirm by the pending owner X then succeeds, sets the
\* owner of all three configs to X and clears pending_owner; a cancel by the
\* owner succeeds, leaves the three owner fields alone and clears
\* pending_owner.
C5_SubmitThenConfirmOrCancel ==
    [][ /\ (last'.op = "submit_ownership_transfer_request" /\ last'.err = "Ok")
           => /\ owner_config'.pending_owner = Some(last'.args[1])
              /\ Owners' = Owners
        /\ ( /\ last'.op = "confirm_ownership_transfer_request"
             /\ owner_config.pending_owner = Some(last'.payer) )
           => /\ last'.err = "Ok"
              /\ Owners' = <<last'.payer, last'.payer, last'.payer>>
              /\ owner_config'.pending_owner = None
        /\ ( /\ last'.op = "cancel_ownership_transfer_request"
             /\ initialized
             /\ last'.payer = owner_config.owner )
           => /\ last'.err = "Ok"
              /\ Owners' = Owners
              /\ owner_config'.pending_owner = None
      ]_vars

\* The pending owner confirmed a request and now owns all three configs.
C5_Witness ==
    /\ last.op = "confirm_ownership_transfer_request" /\ last.err = "Ok"
    /\ last.prior_pending = Some(last.payer)
    /\ Owners = <<last.payer, last.payer, last.payer>>
    /\ owner_config.pending_owner = None

\* C6: on a deployed program, confirm_ownership_transfer_request by a caller
\* that is not the current pending owner (also when none is pending) fails
\* with NotPendingOwner and changes nothing.
C6_ConfirmOnlyByPendingOwner ==
    [][ ( /\ initialized
          /\ last'.op = "confirm_ownership_transfer_request"
          /\ owner_config.pending_owner # Some(last'.payer) )
        => /\ last'.err = "NotPendingOwner"
           /\ UNCHANGED progVars
      ]_vars

\* A confirm was refused while no request was outstanding, made by the owner
\* (who got there by confirming an earlier request, or is the initial owner).
C6_Witness ==
    /\ last.op = "confirm_ownership_transfer_request"
    /\ last.err = "NotPendingOwner"
    /\ last.prior_pending = None
    /\ last.payer = owner_config.owner

\* C7: submit_ownership_transfer_request by the owner fails with
\* InvalidPublicKey when new_owner is the zero identity and with
\* AlreadyTheOwner when new_owner is the current owner, and changes nothing.
C7_SubmitRejectsZeroAndOwner ==
    [][ ( /\ initialized
          /\ last'.op = "submit_ownership_transfer_request"
          /\ last'.payer = owner_config.owner )
        => /\ last'.args[1] = ZeroKey
                => last'.err = "InvalidPublicKey" /\ UNCHANGED progVars
           /\ last'.args[1] = owner_config.owner
                => last'.err = "AlreadyTheOwner" /\ UNCHANGED progVars
      ]_vars

\* The owner named itself while another request was outstanding, and the
\* outstanding request is still there.
C7_Witness ==
    /\ last.op = "submit_ownership_transfer_request"
    /\ last.err = "AlreadyTheOwner"
    /\ last.prior_pending.is_some
    /\ owner_config.pending_owner = last.prior_pending

\* C8: pending_owner holds at most one identity: a successful submit(B)
\* replaces whatever was pending by B, a confirm succeeds only for the
\* identity pending at that moment, and right after a successful submit(B)
\* a confirm succeeds exactly when its caller is B.
C8_SinglePendingOwner ==
    [][ /\ (last'.op = "submit_ownership_transfer_request" /\ last'.err = "Ok")
           => owner_config'.pending_owner = Some(last'.args[1])
        /\ (last'.op = "confirm_ownership_transfer_request" /\ last'.err = "Ok")
           => owner_config.pending_owner = Some(last'.payer)
        /\ ( /\ last.op = "submit_ownership_transfer_request" /\ last.err = "Ok"
             /\ last'.op = "confirm_ownership_transfer_request" )
           => (last'.err = "Ok" <=> last'.payer = last.args[1])
      ]_vars

\* A second submit replaced a different outstanding pending owner.
C8_Witness ==
    /\ last.op = "submit_ownership_transfer_request" /\ last.err = "Ok"
    /\ last.prior_pending.is_some
    /\ last.prior_pending.key # last.args[1]
    /\ owner_config.pending_owner = Some(last.args[1])

OwnerOnlyInstructions ==
    {"register_foreign_contract", "register_token", "deregister_token",
     "update_relayer_fee_precision", "update_swap_rate_precision",
     "update_max_native_swap_amount", "set_pause_for_transfers",
     "submit_ownership_transfer_request", "cancel_ownership_transfer_request"}

\* C9: an owner-only instruction called by anyone but the current owner, the
\* assistant included, fails and changes nothing; so these instructions
\* change state only when the owner calls them.
C9_OwnerOnlyInstructions ==
    [][ last'.op \in OwnerOnlyInstructions
        => /\ last'.payer # owner_config.owner
                => last'.err # "Ok" /\ UNCHANGED progVars
           /\ progVars' # progVars => last'.payer = owner_config.owner
      ]_vars

\* The assistant, who is not the owner, was refused an owner-only instruction.
C9_Witness ==
    /\ last.op \in OwnerOnlyInstructions
    /\ last.payer = owner_config.assistant
    /\ last.payer # owner_config.owner
    /\ last.err = "OwnerOnly"

\* C10 as stated: update_relayer_fee succeeds exactly when the caller is the
\* owner or the assistant.
C10_AsStated ==
    [][ (initialized /\ last'.op = "update_relayer_fee")
        => (last'.err = "Ok" <=>
                (last'.payer = owner_config.owner \/ last'.payer = owner_config.assistant))
      ]_vars

\* C10: for a chain whose ForeignContract is registered, update_relayer_fee
\* succeeds exactly when the caller is the owner or the assistant, and then
\* the chain's RelayerFee record holds the given chain and fee; any other
\* caller fails with OwnerOrAssistantOnly and nothing changes.  For a chain
\* without a registered ForeignContract it fails for every caller and nothing
\* changes.
C10_UpdateRelayerFee ==
    [][ (initialized /\ last'.op = "update_relayer_fee")
        => LET chain == last'.args[1]
               fee   == last'.args[2] IN
           IF ~foreign_contract[chain].exists
           THEN last'.err # "Ok" /\ UNCHANGED progVars
           ELSE IF last'.payer = owner_config.owner \/ last'.payer = owner_config.assistant
           THEN /\ last'.err = "Ok"
                /\ relayer_fee'[chain] = [exists |-> TRUE, chain |-> chain, fee |-> fee]
                /\ \A c \in Chains \ {chain} : relayer_fee'[c] = relayer_fee[c]
           ELSE /\ last'.err = "OwnerOrAssistantOnly"
                /\ UNCHANGED progVars
      ]_vars

\* The assistant, who is not the owner, set a nonzero fee for a registered
\* chain.
C10_Witness ==
    /\ last.op = "update_relayer_fee" /\ last.err = "Ok"
    /\ last.payer = owner_config.assistant
    /\ last.payer # owner_config.owner
    /\ relayer_fee[last.args[1]] = [exists |-> TRUE, chain |-> last.args[1], fee |-> 1]


(***************************************************************************)
(* Outbound amounts                                                        *)
(***************************************************************************)

SendOps == {"send_native_tokens_with_payload", "send_wrapped_tokens_with_payload"}

\* The errors of the checks a send makes before it compares the amounts.
SendEarlierErrors ==
    {"AccountNotInitialized", "OutboundTransfersPaused", "TokenNotRegistered",
     "InvalidRecipient", "ZeroBridgeAmount", "InvalidToNativeAmount",
     "FeeCalculationError"}

\* The three amounts of the last send, as mathematical integers: the native
\* send compares the amounts normalized to 8 decimals, the wrapped send the
\* amounts as given (a wrapped mint has at most 8 decimals).
SentAmounts ==
    LET mint == last.args[1]
        dec == IF last.op = "send_native_tokens_with_payload"
               THEN decimals(mint) ELSE 8
        fee == checked_token_fee(relayer_fee[last.args[4]].fee, decimals(mint),
                    registered_token[mint].swap_rate,
                    sender_config.swap_rate_precision,
                    sender_config.relayer_fee_precision)
    IN  [amount |-> normalize_amount(last.args[2], dec),
         to_native |-> normalize_amount(last.args[3], dec),
         relayer_fee |-> normalize_amount(fee, dec)]

SentEnough ==
    SentAmounts.amount > SentAmounts.to_native + SentAmounts.relayer_fee

\* C2: every successful send satisfies normalized_amount >
\* normalized_to_native_amount + normalized_relayer_fee strictly, and a send
\* that reaches the comparison without satisfying it is rejected with
\* InsufficientFunds.
C2_AsStated ==
    (last.op \in SendOps)
        => /\ last.err = "Ok" => SentEnough
           /\ (last.err \notin SendEarlierErrors /\ ~SentEnough)
                => last.err = "InsufficientFunds"

\* A send was accepted although the amount does not exceed the sum of the
\* native-swap amount and the relayer fee: the u64 sum wrapped around.
C2_Witness ==
    /\ last.op \in SendOps
    /\ last.err = "Ok"
    /\ ~SentEnough

\* The same request in a build with overflow checks: the sum aborts the
\* instruction, which is no InsufficientFunds rejection.
C2_WitnessAbort ==
    /\ last.op \in SendOps
    /\ last.err = "ArithmeticOverflowAbort"
    /\ ~SentEnough


(***************************************************************************)
(* Replay protection                                                       *)
(***************************************************************************)

RedeemOps == {"redeem_native_transfer_with_payload",
              "redeem_wrapped_transfer_with_payload"}

\* C1: a message is redeemed at most once, whoever calls: a redeem succeeds
\* only for a message without a claim record and leaves the record behind,
\* a claim record is never removed, and every redeem of a message that has a
\* claim record fails with AlreadyRedeemed and moves no tokens or lamports
\* (it changes no account at all).
C1_RedeemAtMostOnce ==
    [][ /\ \A msg \in Msgs : token_bridge_claim[msg] => token_bridge_claim'[msg]
        /\ (last'.op \in RedeemOps)
            => LET msg == last'.args[1]
               IN  /\ last'.err = "Ok"
                        => (~token_bridge_claim[msg] /\ token_bridge_claim'[msg])
                   /\ token_bridge_claim[msg]
                        => (last'.err = "AlreadyRedeemed" /\ UNCHANGED progVars)
      ]_vars

\* A redeem of an already redeemed message, by a caller who would otherwise
\* be entitled to it (the recipient named in the payload), was rejected.
C1_Witness ==
    /\ last.op \in RedeemOps
    /\ last.err = "AlreadyRedeemed"
    /\ token_bridge_claim[last.args[1]]
    /\ last.args[2] = vaa[last.args[1]].recipient
    /\ registered_token[vaa[last.args[1]].mint].is_registered

(***************************************************************************)
(* Foreign contracts                                                       *)
(***************************************************************************)

\* Every stored ForeignContract names a foreign chain and a non-zero emitter.
ForeignContractsValid ==
    \A c \in Chains :
        foreign_contract[c].exists
            => (foreign_contract[c].chain > CHAIN_ID_SOLANA
                /\ foreign_contract[c].address # 0)

\* C11: register_foreign_contract(chain, address), called by the owner, fails
\* with InvalidForeignContract and changes nothing when chain <= the host
\* chain id or the address is all zero, and otherwise stores chain and
\* address; hence every stored ForeignContract has a chain above the host
\* chain id and a non-zero emitter address.
C11_ForeignContractValid ==
    /\ []ForeignContractsValid
    /\ [][ (initialized /\ last'.op = "register_foreign_contract"
              /\ last'.payer = owner_config.owner)
            => LET chain == last'.args[1]
                   address == last'.args[2]
               IN  IF chain <= CHAIN_ID_SOLANA \/ address = 0
                   THEN last'.err = "InvalidForeignContract" /\ UNCHANGED progVars
                   ELSE /\ last'.err = "Ok"
                        /\ foreign_contract'[chain].exists
                        /\ foreign_contract'[chain].chain = chain
                        /\ foreign_contract'[chain].address = address
         ]_vars

\* With a foreign contract stored, the owner's registration of an invalid
\* emitter was rejected.
C11_Witness ==
    /\ \E c \in Chains : foreign_contract[c].exists
    /\ last.op = "register_foreign_contract"
    /\ last.payer = owner_config.owner
    /\ last.err = "InvalidForeignContract"

(***************************************************************************)
(* The pause switch                                                        *)
(***************************************************************************)

\* The send request recorded in l meets every precondition of its
\* instruction other than the pause switch, and the sender holds the funds.
SendRequestValid(l) ==
    LET native == l.op = "send_native_tokens_with_payload"
        mint == l.args[1]
        amount == l.args[2]
        to_native == l.args[3]
        dec == IF native THEN decimals(mint) ELSE 8
        wrap == native /\ l.args[6]
        fee == checked_token_fee(relayer_fee[l.args[4]].fee, decimals(mint),
                    registered_token[mint].swap_rate,
                    sender_config.swap_rate_precision,
                    sender_config.relayer_fee_precision)
    IN  /\ SendAccountsExist(l.args[4])
        /\ registered_token[mint].is_registered
        /\ l.args[4] > CHAIN_ID_SOLANA /\ l.args[5] # 0
        /\ truncate_amount(amount, dec) > 0
        /\ to_native = 0 \/ normalize_amount(to_native, dec) > 0
        /\ fee # NoAmount
        /\ normalize_amount(amount, dec)
                > normalize_amount(to_native, dec) + normalize_amount(fee, dec)
        /\ wrap => mint = native_mint
        /\ IF wrap THEN lamports[l.payer] >= truncate_amount(amount, dec)
           ELSE token_balance[mint][l.payer] >= truncate_amount(amount, dec)

\* C12: while SenderConfig.paused is true every send fails with
\* OutboundTransfersPaused and changes nothing (no funds are staged); while
\* it is false, also after having been true, a send that meets the other
\* preconditions succeeds.
C12_PausedSendsFail ==
    [][ (last'.op \in SendOps /\ SendAccountsExist(last'.args[4]))
        => IF sender_config.paused
           THEN last'.err = "OutboundTransfersPaused" /\ UNCHANGED progVars
           ELSE /\ last'.err # "OutboundTransfersPaused"
                /\ SendRequestValid(last') => last'.err = "Ok"
      ]_vars

\* Transfers were paused when the deployment was taken up; a send succeeded
\* after they were resumed.
C12_Witness ==
    /\ last.op \in SendOps
    /\ last.err = "Ok"
    /\ ~sender_config.paused
    /\ sequence > 0

\* Everything a redeem of the request recorded in l needs in order to
\* succeed; the pause switch is not among it.
RedeemRequestValid(l) ==
    LET msg == l.args[1]
        recipient == l.args[2]
        mint == vaa[msg].mint
        amount == denormalize_amount(vaa[msg].amount, decimals(mint))
        fee == denormalize_amount(vaa[msg].target_relayer_fee, decimals(mint))
        to_native == denormalize_amount(vaa[msg].to_native_token_amount,
                                        decimals(mint))
    IN  /\ ~token_bridge_claim[msg]
        /\ registered_token[mint].is_registered
        /\ recipient = vaa[msg].recipient
        /\ mint \in NativeMints => custody[mint] >= amount
        /\ IF mint = native_mint
           THEN UnwrapPayout(l.payer, recipient, amount, fee).err = "Ok"
           ELSE TokenPayout(l.payer, recipient, mint, amount, fee, to_native).err = "Ok"

\* C13: inbound redemption is never paused: whether a redeem succeeds is
\* decided by the message, the registration, the recipient and the funds
\* alone, so a redemption that succeeds with paused == false succeeds with
\* paused == true as well, and no redeem fails with OutboundTransfersPaused.
C13_RedeemNeverPaused ==
    [][ (last'.op \in RedeemOps)
        => /\ last'.err = "Ok" <=> RedeemRequestValid(last')
           /\ last'.err # "OutboundTransfersPaused"
      ]_vars

\* A redeem of each kind succeeded while outbound transfers were paused.
C13_Witness ==
    /\ sender_config.paused
    /\ last.op = "redeem_wrapped_transfer_with_payload"
    /\ last.err = "Ok"
    /\ \E msg \in Msgs : vaa[msg].mint \in NativeMints /\ token_bridge_claim[msg]

(***************************************************************************)
(* Payouts of a redemption                                                 *)
(***************************************************************************)

\* The denormalized principal of a message.
Principal(msg) == denormalize_amount(vaa[msg].amount, decimals(vaa[msg].mint))

\* Nobody but key k gains or loses tokens or lamports in the step.
OnlyBalanceOf(k) ==
    /\ \A j \in Keys \ {k} : lamports'[j] = lamports[j]
    /\ \A m \in Mints : \A j \in Keys \ {k} :
            token_balance'[m][j] = token_balance[m][j]

\* C14: self-redemption: when the caller of a successful redeem is the
\* recipient, the recipient receives the whole denormalized principal, as
\* tokens or, for the native mint, as lamports; the fee recipient and
\* everybody else receive nothing and no lamports are swapped, whatever
\* relayer fee and to-native amount the payload carries.
C14_SelfRedemption ==
    [][ (last'.op \in RedeemOps /\ last'.err = "Ok" /\ last'.payer = last'.args[2])
        => LET msg == last'.args[1]
               recipient == last'.args[2]
               mint == vaa[msg].mint
           IN  /\ OnlyBalanceOf(recipient)
               /\ IF mint = native_mint
                  THEN /\ lamports'[recipient] = lamports[recipient] + Principal(msg)
                       /\ token_balance' = token_balance
                  ELSE /\ token_balance'[mint][recipient]
                            = token_balance[mint][recipient] + Principal(msg)
                       /\ \A m \in Mints \ {mint} :
                            token_balance'[m][recipient] = token_balance[m][recipient]
                       /\ lamports' = lamports
      ]_vars

\* The recipient redeemed both of its messages itself, each carrying a
\* relayer fee and one a to-native request.
C14_Witness ==
    /\ last.op \in RedeemOps /\ last.err = "Ok" /\ last.payer = last.args[2]
    /\ \A msg \in Msgs : token_bridge_claim[msg] /\ vaa[msg].target_relayer_fee > 0
    /\ \E msg \in Msgs : vaa[msg].to_native_token_amount > 0
    /\ token_balance["WETH"][2] = Principal(2)
    /\ redeemer_config.fee_recipient # 2

\* The pair <<token_amount_in, native_amount_out>> of a message's to-native
\* request.
SwapOf(msg) ==
    LET mint == vaa[msg].mint
    IN  calculate_native_swap_amounts(registered_token[mint], decimals(mint),
            registered_token[native_mint].swap_rate,
            redeemer_config.swap_rate_precision,
            denormalize_amount(vaa[msg].to_native_token_amount, decimals(mint)))

\* The denormalized relayer fee of a message.
FeeOf(msg) ==
    denormalize_amount(vaa[msg].target_relayer_fee, decimals(vaa[msg].mint))

\* C15: a successful relayer-assisted redemption (caller # recipient) of a
\* token other than the native mint pays token_amount_in + fee to the fee
\* recipient (nothing when that sum is zero) and the principal less that sum
\* to the recipient, so the two payouts sum to the denormalized principal;
\* native_amount_out lamports go from the caller to the recipient, and none
\* when native_amount_out is zero.  Nothing else moves.
C15_RelayedRedemption ==
    [][ (last'.op \in RedeemOps /\ last'.err = "Ok"
            /\ last'.payer # last'.args[2]
            /\ vaa[last'.args[1]].mint # native_mint)
        => LET msg == last'.args[1]
               payer == last'.payer
               recipient == last'.args[2]
               mint == vaa[msg].mint
               to_fee == SwapOf(msg)[1] + FeeOf(msg)
               out == SwapOf(msg)[2]
               fee_recipient == redeemer_config.fee_recipient
           IN  /\ to_fee <= Principal(msg)
               /\ last'.effects.to_fee_recipient = to_fee
               /\ last'.effects.to_recipient = Principal(msg) - to_fee
               /\ last'.effects.to_fee_recipient + last'.effects.to_recipient
                    = last'.effects.deposited
               /\ last'.effects.deposited = Principal(msg)
               /\ last'.effects.forwarded = out
               /\ token_balance' = [token_balance EXCEPT ![mint] =
                    [k \in Keys |-> @[k]
                        + (IF k = fee_recipient THEN to_fee ELSE 0)
                        + (IF k = recipient THEN Principal(msg) - to_fee ELSE 0)]]
               /\ lamports' = [k \in Keys |-> lamports[k]
                        - (IF k = payer THEN out ELSE 0)
                        + (IF k = recipient THEN out ELSE 0)]
      ]_vars

\* A relayer redeemed a token transfer that carried a fee and a to-native
\* request: it paid lamports, the fee recipient got fee and swapped tokens.
C15_Witness ==
    /\ last.op \in RedeemOps /\ last.err = "Ok"
    /\ last.payer # last.args[2]
    /\ vaa[last.args[1]].mint # native_mint
    /\ FeeOf(last.args[1]) > 0
    /\ last.effects.forwarded > 0
    /\ last.effects.to_fee_recipient > FeeOf(last.args[1])
    /\ last.effects.to_recipient > 0

\* A relayer redeemed a token transfer without fee and to-native request:
\* nothing went to the fee recipient.
C15_WitnessNoFee ==
    /\ last.op \in RedeemOps /\ last.err = "Ok"
    /\ last.payer # last.args[2]
    /\ vaa[last.args[1]].mint # native_mint
    /\ last.effects.to_fee_recipient = 0
    /\ last.effects.forwarded = 0

\* The message is one a peer's send produces: its principal exceeds the sum
\* of relayer fee and to-native amount (all normalized).
SentByPeer(msg) ==
    vaa[msg].amount > vaa[msg].to_native_token_amount + vaa[msg].target_relayer_fee

\* C16: a successful redemption of the native mint (wrapped SOL) unwraps the
\* whole custody balance, the principal, to the caller; a caller other than
\* the recipient forwards exactly principal - fee lamports to the recipient
\* and so keeps exactly the relayer fee; no tokens move, the fee recipient
\* gets nothing and no swap is computed, whatever to-native amount the
\* payload carries.
C16_NativeMintRedemption ==
    [][ (last'.op \in RedeemOps /\ last'.err = "Ok"
            /\ vaa[last'.args[1]].mint = native_mint
            /\ SentByPeer(last'.args[1]))
        => LET msg == last'.args[1]
               payer == last'.payer
               recipient == last'.args[2]
           IN  /\ last'.effects.closed_to_payer = Principal(msg)
               /\ last'.effects.to_fee_recipient = 0
               /\ last'.effects.to_recipient = 0
               /\ token_balance' = token_balance
               /\ custody'[native_mint] = custody[native_mint] - Principal(msg)
               /\ IF payer = recipient
                  THEN lamports' = [lamports EXCEPT ![payer] = @ + Principal(msg)]
                  ELSE /\ last'.effects.forwarded = Principal(msg) - FeeOf(msg)
                       /\ lamports' = [lamports EXCEPT
                            ![payer] = @ + FeeOf(msg),
                            ![recipient] = @ + Principal(msg) - FeeOf(msg)]
      ]_vars

\* A relayer redeemed a wrapped SOL transfer that carried a fee and a
\* to-native request, and kept the fee.
C16_Witness ==
    /\ last.op \in RedeemOps /\ last.err = "Ok"
    /\ vaa[last.args[1]].mint = native_mint
    /\ SentByPeer(last.args[1])
    /\ last.payer # last.args[2]
    /\ FeeOf(last.args[1]) > 0
    /\ vaa[last.args[1]].to_native_token_amount > 0
    /\ last.effects.forwarded = Principal(last.args[1]) - FeeOf(last.args[1])

(***************************************************************************)
(* Atomicity                                                               *)
(***************************************************************************)

PrecisionsAgree ==
    initialized
        => /\ sender_config.relayer_fee_precision = redeemer_config.relayer_fee_precision
           /\ sender_config.swap_rate_precision = redeemer_config.swap_rate_precision
           /\ sender_config.relayer_fee_precision > 0
           /\ sender_config.swap_rate_precision > 0

\* C18: update_relayer_fee_precision and update_swap_rate_precision, called
\* by the owner, reject the value 0 with InvalidPrecision, changing nothing,
\* and otherwise write the value to both SenderConfig and RedeemerConfig;
\* hence after initialize both configs always hold equal relayer fee
\* precisions and equal swap rate precisions, all positive.
C18_PrecisionsAgree ==
    /\ []PrecisionsAgree
    /\ [][ (initialized /\ last'.payer = owner_config.owner
              /\ last'.op \in {"update_relayer_fee_precision",
                               "update_swap_rate_precision"})
            => LET value == last'.args[1]
               IN  IF value = 0
                   THEN last'.err = "InvalidPrecision" /\ UNCHANGED progVars
                   ELSE /\ last'.err = "Ok"
                        /\ IF last'.op = "update_relayer_fee_precision"
                           THEN /\ sender_config'.relayer_fee_precision = value
                                /\ redeemer_config'.relayer_fee_precision = value
                           ELSE /\ sender_config'.swap_rate_precision = value
                                /\ redeemer_config'.swap_rate_precision = value
         ]_vars

\* Both precisions were changed from their initial value, and a zero
\* precision was then rejected.
C18_Witness ==
    /\ initialized
    /\ sender_config.relayer_fee_precision # initial_precision
    /\ redeemer_config.swap_rate_precision # initial_precision
    /\ last.op \in {"update_relayer_fee_precision", "update_swap_rate_precision"}
    /\ last.payer = owner_config.owner
    /\ last.err = "InvalidPrecision"

(***************************************************************************)
(* Registering and deregistering a token                                   *)
(***************************************************************************)

\* The record of a token that is not registered.
Unregistered == [swap_rate |-> 0, max_native_swap_amount |-> 0, is_registered |-> FALSE]

\* C19: register_token, called by the owner, succeeds only for a token that
\* is not registered and a swap_rate > 0; it fails with
\* TokenAlreadyRegistered for a registered token and with ZeroSwapRate for
\* a zero rate of an unregistered one.  deregister_token succeeds exactly
\* for a registered token and leaves swap_rate 0, max_native_swap_amount 0
\* and is_registered false.  A rejected call changes nothing.  A token that
\* is not registered, be it after a deregistration, is registered by every
\* call with a positive rate (and, for the native mint, a zero maximum).
C19_RegisterDeregister ==
    [][ (initialized /\ last'.payer = owner_config.owner
            /\ last'.op \in {"register_token", "deregister_token"})
        => LET mint == last'.args[1]
               token == registered_token[mint]
           IN  /\ last'.err # "Ok" => UNCHANGED progVars
               /\ IF last'.op = "register_token"
                  THEN LET swap_rate == last'.args[2]
                           max == last'.args[3]
                       IN  /\ last'.err = "Ok"
                                => /\ ~token.is_registered /\ swap_rate > 0
                                   /\ registered_token'[mint] =
                                        [swap_rate |-> swap_rate,
                                         max_native_swap_amount |-> max,
                                         is_registered |-> TRUE]
                           /\ token.is_registered
                                => last'.err = "TokenAlreadyRegistered"
                           /\ (~token.is_registered /\ swap_rate = 0)
                                => last'.err = "ZeroSwapRate"
                           /\ (~token.is_registered /\ swap_rate > 0
                                  /\ (mint # native_mint \/ max = 0))
                                => last'.err = "Ok"
                  ELSE /\ last'.err = "Ok" <=> token.is_registered
                       /\ last'.err = "Ok" => registered_token'[mint] = Unregistered
      ]_vars

\* A registered token was deregistered: its record is that of a token that
\* was never registered, which register_token accepts.
C19_Witness ==
    /\ last.op = "deregister_token"
    /\ last.err = "Ok"
    /\ registered_token[last.args[1]] = Unregistered
    /\ \E m \in Mints : registered_token[m].is_registered

(***************************************************************************)
(* One-time initialization                                                 *)
(***************************************************************************)

\* C20: initialize takes effect at most once: once the deployment is
\* initialized every initialize call, by whomever and with whatever
\* arguments, fails and leaves owner, assistant, fee_recipient, precisions
\* and paused (and everything else) as they were.
C20_InitializeOnce ==
    [][ (initialized /\ last'.op = "initialize")
        => (last'.err # "Ok" /\ UNCHANGED progVars)
      ]_vars

\* On a deployment whose configuration had since been changed, a second
\* initialize by another signer with valid arguments was rejected.
C20_Witness ==
    /\ initialized
    /\ last.op = "initialize"
    /\ last.err # "Ok"
    /\ last.payer # owner_config.owner
    /\ last.args[1] # ZeroKey /\ last.args[2] # ZeroKey
    /\ sender_config.paused
    /\ sender_config.relayer_fee_precision # initial_precision

(***************************************************************************)
(* The recipient of a redemption                                           *)
(***************************************************************************)

\* C21: a redeem whose recipient account differs from the recipient field of
\* the payload fails, with InvalidRecipient when the two earlier checks
\* (claim record, registration) pass, before the bridge is invoked: no claim
\* record is written and no funds move.  So a successful redeem names the
\* payload's recipient, and only the caller, that recipient and the fee
\* recipient see their balances change.
C21_RecipientMustMatch ==
    [][ (last'.op \in RedeemOps)
        => LET msg == last'.args[1]
               recipient == last'.args[2]
               parties == {last'.payer, vaa[msg].recipient,
                           redeemer_config.fee_recipient}
           IN  /\ recipient # vaa[msg].recipient
                    => /\ last'.err # "Ok"
                       /\ UNCHANGED progVars
                       /\ (~token_bridge_claim[msg]
                             /\ registered_token[vaa[msg].mint].is_registered)
                            => last'.err = "InvalidRecipient"
               /\ last'.err = "Ok"
                    => /\ recipient = vaa[msg].recipient
                       /\ \A k \in Keys \ parties :
                            /\ lamports'[k] = lamports[k]
                            /\ \A m \in Mints : token_balance'[m][k] = token_balance[m][k]
      ]_vars

\* A relayer named itself as the recipient of a message that was still
\* unredeemed and whose token was registered, and was rejected.
C21_Witness ==
    /\ last.op \in RedeemOps
    /\ last.err = "InvalidRecipient"
    /\ last.args[2] = last.payer
    /\ last.args[2] # vaa[last.args[1]].recipient
    /\ ~token_bridge_claim[last.args[1]]

(***************************************************************************)
(* Sends and redemptions of every branch, for the custody account          *)
(***************************************************************************)

InitCustody ==
    /\ initialized = TRUE
    /\ sender_config = [owner |-> 1, paused |-> FALSE,
                        relayer_fee_precision |-> initial_precision,
                        swap_rate_precision |-> initial_precision]
    /\ redeemer_config = [owner |-> 1, fee_recipient |-> 1,
                          relayer_fee_precision |-> initial_precision,
                          swap_rate_precision |-> initial_precision]
    /\ owner_config = [owner |-> 1, assistant |-> 2, pending_owner |-> None]
    /\ registered_token = [m \in Mints |->
            [swap_rate |-> SendSwapRate(m),
             max_native_swap_amount |-> IF m = native_mint THEN 0 ELSE 30,
             is_registered |-> TRUE]]
    /\ foreign_contract = [c \in Chains |->
            IF c = 2 THEN [exists |-> TRUE, chain |-> 2, address |-> 1]
            ELSE [exists |-> FALSE, chain |-> 0, address |-> 0]]
    /\ relayer_fee = [c \in Chains |->
            IF c = 2 THEN [exists |-> TRUE, chain |-> 2, fee |-> 1]
            ELSE [exists |-> FALSE, chain |-> 0, fee |-> 0]]
    /\ token_balance = [m \in Mints |-> [k \in Keys |->
            IF k # 3 THEN 0 ELSE IF m = native_mint THEN 20 ELSE 10]]
    /\ lamports = [k \in Keys |-> IF k = 3 THEN 20 ELSE 0]
    /\ custody = [m \in Mints |-> IF m \in NativeMints THEN 20 ELSE 0]
    /\ sequence = 0
    /\ token_bridge_claim = [h \in Msgs |-> FALSE]
    /\ \E m1 \in NativeMints, t \in VaaToNative :
            vaa = [h \in Msgs |-> IF h = 1 THEN Vaa(m1, 5, 1, t, 2)
                                  ELSE Vaa("WETH", 5, 1, t, 2)]
    /\ overflow_checks \in BOOLEAN
    /\ last = [op |-> "none", payer |-> ZeroKey, args |-> <<>>, err |-> "Ok",
               prior_pending |-> None, effects |-> NoEffects]

NextCustody ==
    \/ \E mint \in NativeMints, amount \in {10, 20}, wrap_native \in BOOLEAN :
            send_native_tokens_with_payload(3, mint, amount, 0, 2, 1, wrap_native)
    \/ \E amount \in {5, 10} :
            send_wrapped_tokens_with_payload(3, "WETH", amount, 0, 2, 1)
    \/ \E payer \in {2, 3} : redeem_native_transfer_with_payload(payer, 1, 2)
    \/ \E payer \in {2, 3} : redeem_wrapped_transfer_with_payload(payer, 2, 2)

SpecCustody == InitCustody /\ [][NextCustody]_vars

(***************************************************************************)
(* Relayed redemptions with native swaps below and above the maximum       *)
(***************************************************************************)

\* Values of max_native_swap_amount.
SwapMaxima == {0, 15, 30}

InitSwap ==
    /\ initialized = TRUE
    /\ sender_config = [owner |-> 1, paused |-> FALSE,
                        relayer_fee_precision |-> initial_precision,
                        swap_rate_precision |-> initial_precision]
    /\ redeemer_config = [owner |-> 1, fee_recipient |-> 1,
                          relayer_fee_precision |-> initial_precision,
                          swap_rate_precision |-> initial_precision]
    /\ owner_config = [owner |-> 1, assistant |-> 2, pending_owner |-> None]
    /\ registered_token = [m \in Mints |->
            [swap_rate |-> SendSwapRate(m),
             max_native_swap_amount |-> IF m = native_mint THEN 0 ELSE 15,
             is_registered |-> TRUE]]
    /\ foreign_contract = [c \in Chains |->
            IF c = 2 THEN [exists |-> TRUE, chain |-> 2, address |-> 1]
            ELSE [exists |-> FALSE, chain |-> 0, address |-> 0]]
    /\ relayer_fee = [c \in Chains |->
            IF c = 2 THEN [exists |-> TRUE, chain |-> 2, fee |-> 1]
            ELSE [exists |-> FALSE, chain |-> 0, fee |-> 0]]
    /\ token_balance = [m \in Mints |-> [k \in Keys |-> 0]]
    /\ lamports = [k \in Keys |-> IF k = 3 THEN 40 ELSE 0]
    /\ custody = [m \in Mints |-> IF m \in NativeMints THEN 20 ELSE 0]
    /\ sequence = 0
    /\ token_bridge_claim = [h \in Msgs |-> FALSE]
    /\ \E f \in {0, 1}, t1, t2 \in 0..3 :
            vaa = [h \in Msgs |-> IF h = 1 THEN Vaa("USDC", 5, f, t1, 2)
                                  ELSE Vaa("WETH", 5, f, t2, 2)]
    /\ overflow_checks \in BOOLEAN
    /\ last = [op |-> "none", payer |-> ZeroKey, args |-> <<>>, err |-> "Ok",
               prior_pending |-> None, effects |-> NoEffects]

NextSwap ==
    \/ \E payer \in {2, 3} : redeem_native_transfer_with_payload(payer, 1, 2)
    \/ \E payer \in {2, 3} : redeem_wrapped_transfer_with_payload(payer, 2, 2)
    \/ \E mint \in {"USDC", "WETH"}, max_native_swap_amount \in SwapMaxima :
            update_max_native_swap_amount(1, mint, max_native_swap_amount)

SpecSwap == InitSwap /\ [][NextSwap]_vars

(***************************************************************************)
(* Sends and redemptions at swap rates that make the calculations fail     *)
(***************************************************************************)

InitCalc ==
    /\ initialized = TRUE
    /\ sender_config = [owner |-> 1, paused |-> FALSE,
                        relayer_fee_precision |-> initial_precision,
                        swap_rate_precision |-> initial_precision]
    /\ redeemer_config = [owner |-> 1, fee_recipient |-> 1,
                          relayer_fee_precision |-> initial_precision,
                          swap_rate_precision |-> initial_precision]
    /\ owner_config = [owner |-> 1, assistant |-> 2, pending_owner |-> None]
    /\ registered_token = [m \in Mints |->
            [swap_rate |-> SendSwapRate(m),
             max_native_swap_amount |-> IF m = native_mint THEN 0 ELSE 30,
             is_registered |-> TRUE]]
    /\ foreign_contract = [c \in Chains |->
            IF c = 2 THEN [exists |-> TRUE, chain |-> 2, address |-> 1]
            ELSE [exists |-> FALSE, chain |-> 0, address |-> 0]]
    /\ relayer_fee = [c \in Chains |->
            IF c = 2 THEN [exists |-> TRUE, chain |-> 2, fee |-> 1]
            ELSE [exists |-> FALSE, chain |-> 0, fee |-> 0]]
    /\ token_balance = [m \in Mints |-> [k \in Keys |-> IF k = 3 THEN 10 ELSE 0]]
    /\ lamports = [k \in Keys |-> IF k = 3 THEN 40 ELSE 0]
    /\ custody = [m \in Mints |-> IF m \in NativeMints THEN 20 ELSE 0]
    /\ sequence = 0
    /\ token_bridge_claim = [h \in Msgs |-> FALSE]
    /\ vaa = [h \in Msgs |-> IF h = 1 THEN Vaa("USDC", 5, 1, 2, 2)
                             ELSE Vaa("WETH", 5, 1, 2, 2)]
    /\ overflow_checks \in BOOLEAN
    /\ last = [op |-> "none", payer |-> ZeroKey, args |-> <<>>, err |-> "Ok",
               prior_pending |-> None, effects |-> NoEffects]

NextCalc ==
    \/ \E to_native_token_amount \in {0, 2} :
            send_native_tokens_with_payload(3, "USDC", 10, to_native_token_amount,
                2, 1, FALSE)
    \/ \E to_native_token_amount \in {0, 2} :
            send_wrapped_tokens_with_payload(3, "WETH", 10,
                to_native_token_amount, 2, 1)
    \/ \E payer \in {2, 3} : redeem_native_transfer_with_payload(payer, 1, 2)
    \/ \E payer \in {2, 3} : redeem_wrapped_transfer_with_payload(payer, 2, 2)
    \/ \E mint \in Mints : \E swap_rate \in {1, SendSwapRate(mint)} :
            update_swap_rate(1, mint, swap_rate)
    \/ deregister_token(1, native_mint)
    \/ register_token(1, native_mint, SendSwapRate(native_mint), 0)

SpecCalc == InitCalc /\ [][NextCalc]_vars

(***************************************************************************)
(* Sends at varying relayer fees and swap rates                            *)
(***************************************************************************)

\* Values of the relayer fee of a chain.
FeeValues == {0, 1, 3, 5, 7}

\* Multiples of a tenth of a token's decimal scale that its swap rate takes.
RateFactors == {1, 2, 4, 10, 20}

\* Values of the swap rate of a mint.
RateValues(mint) == {k * Pow10(decimals(mint) - 1) : k \in RateFactors}

NextFee ==
    \/ \E fee \in FeeValues : update_relayer_fee(1, 2, fee)
    \/ \E mint \in {"USDC", "WETH"} : \E swap_rate \in RateValues(mint) :
            update_swap_rate(1, mint, swap_rate)
    \/ send_native_tokens_with_payload(3, "USDC", 10, 0, 2, 1, FALSE)
    \/ send_wrapped_tokens_with_payload(3, "WETH", 10, 0, 2, 1)

SpecFee == InitSend /\ [][NextFee]_vars

(***************************************************************************)
(* Sends of tokens of 6, 8 and 9 decimals to varying recipients            *)
(***************************************************************************)

NextPayload ==
    \/ \E mint \in NativeMints, amount \in {10, 25}, to_native_token_amount \in {0, 10},
          recipient_address \in {1, 2} :
            send_native_tokens_with_payload(3, mint, amount, to_native_token_amount,
                2, recipient_address, FALSE)
    \/ \E to_native_token_amount \in {0, 3}, recipient_address \in {1, 2} :
            send_wrapped_tokens_with_payload(3, "WETH", 10,
                to_native_token_amount, 2, recipient_address)
    \/ \E fee \in Fees : update_relayer_fee(1, 2, fee)

SpecPayload == InitSend /\ [][NextPayload]_vars

(***************************************************************************)
(* The message codec and the delivery of a sent message                    *)
(***************************************************************************)

\* The discriminant tag of the TransferWithRelay variant.
PAYLOAD_ID_TRANSFER_WITH_RELAY == 1

\* The number of bytes of each of the three fields.
FIELD_WIDTH == 2

RECURSIVE to_be_bytes(_, _)
\* The value v in w bytes, most significant byte first.
to_be_bytes(v, w) ==
    IF w = 0 THEN <<>> ELSE Append(to_be_bytes(v \div 256, w - 1), v % 256)

RECURSIVE from_be_bytes(_)
\* The value of a byte string, most significant byte first.
from_be_bytes(bytes) ==
    IF bytes = <<>> THEN 0
    ELSE 256 * from_be_bytes(SubSeq(bytes, 1, Len(bytes) - 1)) + bytes[Len(bytes)]

\* TokenBridgeRelayerMessage encoding: the tag, then the three fields at
\* their fixed width.
encode(message) ==
    <<PAYLOAD_ID_TRANSFER_WITH_RELAY>>
        \o to_be_bytes(message.target_relayer_fee, FIELD_WIDTH)
        \o to_be_bytes(message.to_native_token_amount, FIELD_WIDTH)
        \o to_be_bytes(message.recipient, FIELD_WIDTH)

\* The result of decoding bytes that are no message.
NoMessage == [target_relayer_fee |-> NoAmount, to_native_token_amount |-> NoAmount,
              recipient |-> ZeroKey]

\* Mutant: the decoder reads the fields whatever the tag is.
decode_Lenient(bytes) ==
    IF Len(bytes) # 1 + 3 * FIELD_WIDTH THEN NoMessage
    ELSE TransferWithRelay(
        from_be_bytes(SubSeq(bytes, 2, 1 + FIELD_WIDTH)),
        from_be_bytes(SubSeq(bytes, 2 + FIELD_WIDTH, 1 + 2 * FIELD_WIDTH)),
        from_be_bytes(SubSeq(bytes, 2 + 2 * FIELD_WIDTH, 1 + 3 * FIELD_WIDTH)))

\* TokenBridgeRelayerMessage decoding: bytes of another length or with
\* another tag are rejected.
decode(bytes) ==
    IF Len(bytes) # 1 + 3 * FIELD_WIDTH THEN NoMessage
    ELSE IF bytes[1] # PAYLOAD_ID_TRANSFER_WITH_RELAY THEN NoMessage
    ELSE TransferWithRelay(
        from_be_bytes(SubSeq(bytes, 2, 1 + FIELD_WIDTH)),
        from_be_bytes(SubSeq(bytes, 2 + FIELD_WIDTH, 1 + 2 * FIELD_WIDTH)),
        from_be_bytes(SubSeq(bytes, 2 + 2 * FIELD_WIDTH, 1 + 3 * FIELD_WIDTH)))

\* The bridge attests the transfer of the last send and posts it as message
\* msg with the given payload bytes; vaa holds a message as the account
\* loader of the redeem instructions decodes it.  Bytes that do not decode
\* give no message a redeem can be called with.
post_vaa(msg, bytes) ==
    LET args == <<msg, bytes>>
        mint == last.args[1]
        dec == IF last.op = "send_native_tokens_with_payload"
               THEN decimals(mint) ELSE 8
        message == decode(bytes)
    IN
    /\ last.op \in {"send_native_tokens_with_payload",
                    "send_wrapped_tokens_with_payload"}
    /\ last.err = "Ok"
    /\ ~token_bridge_claim[msg]
    /\ IF message = NoMessage
       THEN Rejected("post_vaa", ZeroKey, args, "InvalidPayload")
       ELSE /\ vaa' = [vaa EXCEPT ![msg] =
                    Vaa(mint, normalize_amount(last.effects.bridged, dec),
                        message.target_relayer_fee,
                        message.to_native_token_amount, message.recipient)]
            /\ UNCHANGED <<configVars, registryVars, ledgerVars, overflow_checks>>
            /\ CommittedWith("post_vaa", ZeroKey, args,
                    [sent |-> last.effects.payload])

\* The bytes a bridge message may carry in place of the encoded bytes: with
\* another tag, cut short, extended, or empty.
Malformed(bytes) ==
    {[bytes EXCEPT ![1] = 0], [bytes EXCEPT ![1] = 2],
     SubSeq(bytes, 1, Len(bytes) - 1), Append(bytes, 0), <<>>}

\* The payload bytes the message of the last send may arrive with.
Deliverable ==
    IF /\ last.op \in {"send_native_tokens_with_payload",
                       "send_wrapped_tokens_with_payload"}
       /\ last.err = "Ok"
    THEN {encode(last.effects.payload)} \cup Malformed(encode(last.effects.payload))
    ELSE {}

NextCodec ==
    \/ \E amount \in {5, 10}, to_native_token_amount \in {0, 2}, recipient_address \in {1, 2} :
            send_native_tokens_with_payload(3, "USDC", amount,
                to_native_token_amount, 2, recipient_address, FALSE)
    \/ \E msg \in Msgs : \E bytes \in Deliverable : post_vaa(msg, bytes)
    \/ \E payer \in {2, 3}, msg \in Msgs, recipient \in {1, 2} :
            redeem_native_transfer_with_payload(payer, msg, recipient)

SpecCodec == InitAll /\ [][NextCodec]_vars

(***************************************************************************)
(* Two callers, each sending and redeeming transfers of its own            *)
(***************************************************************************)

InitPair ==
    /\ initialized = TRUE
    /\ sender_config = [owner |-> 1, paused |-> FALSE,
                        relayer_fee_precision |-> initial_precision,
                        swap_rate_precision |-> initial_precision]
    /\ redeemer_config = [owner |-> 1, fee_recipient |-> 1,
                          relayer_fee_precision |-> initial_precision,
                          swap_rate_precision |-> initial_precision]
    /\ owner_config = [owner |-> 1, assistant |-> 2, pending_owner |-> None]
    /\ registered_token = [m \in Mints |->
            [swap_rate |-> SendSwapRate(m),
             max_native_swap_amount |-> IF m = native_mint THEN 0 ELSE 15,
             is_registered |-> TRUE]]
    /\ foreign_contract = [c \in Chains |->
            IF c = 2 THEN [exists |-> TRUE, chain |-> 2, address |-> 1]
            ELSE [exists |-> FALSE, chain |-> 0, address |-> 0]]
    /\ relayer_fee = [c \in Chains |->
            IF c = 2 THEN [exists |-> TRUE, chain |-> 2, fee |-> 1]
            ELSE [exists |-> FALSE, chain |-> 0, fee |-> 0]]
    /\ token_balance = [m \in Mints |-> [k \in Keys |->
            IF k = 3 THEN 10 ELSE IF k = 2 THEN 5 ELSE 0]]
    /\ lamports = [k \in Keys |-> IF k = 3 THEN 20 ELSE IF k = 2 THEN 15 ELSE 0]
    /\ custody = [m \in Mints |-> IF m \in NativeMints THEN 5 ELSE 0]
    /\ sequence = 0
    /\ token_bridge_claim = [h \in Msgs |-> FALSE]
    /\ vaa = [h \in Msgs |-> IF h = 1 THEN Vaa("USDC", 5, 1, 2, 2)
                             ELSE Vaa("WETH", 5, 1, 2, 3)]
    /\ overflow_checks \in BOOLEAN
    /\ last = [op |-> "none", payer |-> ZeroKey, args |-> <<>>, err |-> "Ok",
               prior_pending |-> None, effects |-> NoEffects]

NextPair ==
    \/ \E payer \in {2, 3} :
            send_native_tokens_with_payload(payer, "USDC", 5, 0, 2, 1, FALSE)
    \/ \E payer \in {2, 3} :
            send_wrapped_tokens_with_payload(payer, "WETH", 5, 0, 2, 1)
    \/ \E payer \in {2, 3} :
            redeem_native_transfer_with_payload(payer, 1, vaa[1].recipient)
    \/ \E payer \in {2, 3} :
            redeem_wrapped_transfer_with_payload(payer, 2, vaa[2].recipient)

SpecPair == InitPair /\ [][NextPair]_vars

(***************************************************************************)
(* Redemptions retried while tokens are deregistered and registered again  *)
(***************************************************************************)

NextRetry ==
    \/ \E payer \in {2, 3}, recipient \in {2, 3} :
            redeem_native_transfer_with_payload(payer, 1, recipient)
    \/ \E payer \in {2, 3}, recipient \in {2, 3} :
            redeem_wrapped_transfer_with_payload(payer, 2, recipient)
    \/ \E mint \in {"USDC", "WETH"} : deregister_token(1, mint)
    \/ \E mint \in {"USDC", "WETH"} :
            register_token(1, mint, SendSwapRate(mint), 2)

SpecRetry == InitAll /\ [][NextRetry]_vars

(***************************************************************************)
(* Sends and redemptions whose plain u64 arithmetic leaves the u64 range   *)
(***************************************************************************)

\* A deployment whose sender (3) holds tokens and lamports, with custody of
\* the native mints funded, and two attested messages for recipient 2 with
\* principal 5 and a relayer fee below and above it.
InitOverflow ==
    /\ initialized = TRUE
    /\ sender_config = [owner |-> 1, paused |-> FALSE,
                        relayer_fee_precision |-> initial_precision,
                        swap_rate_precision |-> initial_precision]
    /\ redeemer_config = [owner |-> 1, fee_recipient |-> 1,
                          relayer_fee_precision |-> initial_precision,
                          swap_rate_precision |-> initial_precision]
    /\ owner_config = [owner |-> 1, assistant |-> 2, pending_owner |-> None]
    /\ registered_token = [m \in Mints |->
            [swap_rate |-> SendSwapRate(m),
             max_native_swap_amount |-> IF m = native_mint THEN 0 ELSE 1,
             is_registered |-> TRUE]]
    /\ foreign_contract = [c \in Chains |->
            IF c = 2 THEN [exists |-> TRUE, chain |-> 2, address |-> 1]
            ELSE [exists |-> FALSE, chain |-> 0, address |-> 0]]
    /\ relayer_fee = [c \in Chains |->
            IF c = 2 THEN [exists |-> TRUE, chain |-> 2, fee |-> 1]
            ELSE [exists |-> FALSE, chain |-> 0, fee |-> 0]]
    /\ token_balance = [m \in Mints |-> [k \in Keys |-> IF k = 3 THEN 10 ELSE 0]]
    /\ lamports = [k \in Keys |-> IF k = 3 THEN 10 ELSE 0]
    /\ custody = [m \in Mints |-> IF m \in NativeMints THEN 50 ELSE 0]
    /\ sequence = 0
    /\ token_bridge_claim = [h \in Msgs |-> FALSE]
    /\ \E m1 \in NativeMints, f1, f2 \in VaaFees :
            vaa = [h \in Msgs |-> IF h = 1 THEN Vaa(m1, 5, f1, 0, 2)
                                  ELSE Vaa("WETH", 5, f2, 0, 2)]
    /\ overflow_checks \in BOOLEAN
    /\ last = [op |-> "none", payer |-> ZeroKey, args |-> <<>>, err |-> "Ok",
               prior_pending |-> None, effects |-> NoEffects]

NextOverflow ==
    \/ \E amount \in {5, 10}, to_native_token_amount \in {0, U64_MAX} :
            send_native_tokens_with_payload(3, "USDC", amount,
                to_native_token_amount, 2, 1, FALSE)
    \/ \E amount \in {5, 10}, to_native_token_amount \in {0, U64_MAX} :
            send_wrapped_tokens_with_payload(3, "WETH", amount,
                to_native_token_amount, 2, 1)
    \/ \E payer \in {2, 3} : redeem_native_transfer_with_payload(payer, 1, 2)
    \/ \E payer \in {2, 3} : redeem_wrapped_transfer_with_payload(payer, 2, 2)

SpecOverflow == InitOverflow /\ [][NextOverflow]_vars

(***************************************************************************)
(* C22: the order of the send preconditions                                *)
(***************************************************************************)

\* Which preconditions the send request l fails in the current state, each
\* under the name of its failure.
SendFailures(l) ==
    LET native == l.op = "send_native_tokens_with_payload"
        mint == l.args[1]
        dec == IF native THEN decimals(mint) ELSE 8
        fee == checked_token_fee(relayer_fee[l.args[4]].fee, decimals(mint),
                    registered_token[mint].swap_rate,
                    sender_config.swap_rate_precision,
                    sender_config.relayer_fee_precision)
    IN  [OutboundTransfersPaused |-> sender_config.paused,
         TokenNotRegistered |-> ~registered_token[mint].is_registered,
         InvalidRecipient |-> ~(l.args[4] > CHAIN_ID_SOLANA /\ l.args[5] # 0),
         ZeroBridgeAmount |-> truncate_amount(l.args[2], dec) = 0,
         InvalidToNativeAmount |->
             l.args[3] # 0 /\ normalize_amount(l.args[3], dec) = 0,
         InsufficientFunds |->
             /\ fee # NoAmount
             /\ ~(normalize_amount(l.args[2], dec)
                    > normalize_amount(l.args[3], dec) + normalize_amount(fee, dec))]

RECURSIVE FirstFailure(_, _)
\* The first failure of the sequence order that the record failed holds, or
\* "Ok" when it holds none of them.
FirstFailure(order, failed) ==
    IF order = << >> THEN "Ok"
    ELSE IF failed[Head(order)] THEN Head(order)
    ELSE FirstFailure(Tail(order), failed)

\* The order the preconditions of a send are stated in.
StatedSendOrder ==
    <<"OutboundTransfersPaused", "TokenNotRegistered", "InvalidRecipient",
      "ZeroBridgeAmount", "InvalidToNativeAmount", "InsufficientFunds">>

\* The order the wrapped send checks them in: the amount right after the
\* pause switch, and no check of the normalized native-swap request.
WrappedSendOrder ==
    <<"OutboundTransfersPaused", "ZeroBridgeAmount", "TokenNotRegistered",
      "InvalidRecipient", "InsufficientFunds">>

\* C22 as stated: a send that fails any of the preconditions reports the
\* earliest one in the order paused, token not registered, invalid
\* recipient, zero bridgeable amount, native-swap request normalizing to
\* zero, insufficient funds; this for both send instructions.
C22_AsStated ==
    [][ (last'.op \in SendOps /\ SendAccountsExist(last'.args[4]))
        => LET first == FirstFailure(StatedSendOrder, SendFailures(last'))
           IN  first # "Ok" => last'.err = first
      ]_vars

\* C22: the native send reports the earliest failed precondition in the
\* stated order; the wrapped send reports the earliest one in the order
\* paused, zero amount, token not registered, invalid recipient,
\* insufficient funds, and never InvalidToNativeAmount.  A failed send
\* changes nothing.
C22_SendCheckOrder ==
    [][ (last'.op \in SendOps /\ SendAccountsExist(last'.args[4]))
        => LET order == IF last'.op = "send_native_tokens_with_payload"
                        THEN StatedSendOrder ELSE WrappedSendOrder
               first == FirstFailure(order, SendFailures(last'))
           IN  /\ first # "Ok" => last'.err = first /\ UNCHANGED progVars
               /\ last'.op = "send_wrapped_tokens_with_payload"
                    => last'.err # "InvalidToNativeAmount"
      ]_vars

\* A wrapped send of amount zero to the zero address reported the amount,
\* the token (or the recipient) being invalid as well.
C22_Witness ==
    /\ last.op = "send_wrapped_tokens_with_payload"
    /\ last.err = "ZeroBridgeAmount"
    /\ last.args[2] = 0
    /\ last.args[5] = 0
    /\ ~registered_token[last.args[1]].is_registered

\* A native send failing the recipient, the amount and the native-swap
\* request at once reported the recipient.
C22_WitnessNative ==
    /\ last.op = "send_native_tokens_with_payload"
    /\ last.err = "InvalidRecipient"
    /\ last.args[5] = 0
    /\ truncate_amount(last.args[2], decimals(last.args[1])) = 0
    /\ last.args[3] # 0
    /\ normalize_amount(last.args[3], decimals(last.args[1])) = 0

(***************************************************************************)
(* C23: the transfer-scoped custody account                                *)
(***************************************************************************)

\* The send staged into custody what it delegated to the bridge and what
\* the bridge took, and closed the account with no token balance.
SendLeavesNoBalance ==
    /\ last.effects.staged = last.effects.approved
    /\ last.effects.approved = last.effects.bridged
    /\ last.effects.staged = truncate_amount(last.args[2],
            IF last.op = "send_native_tokens_with_payload"
            THEN decimals(last.args[1]) ELSE 8)
    /\ last.effects.tmp_left = 0

\* The redeem paid the whole deposit out of custody as tokens and closed
\* the account with no token balance.
RedeemLeavesNoBalance ==
    /\ last.effects.to_fee_recipient + last.effects.to_recipient
            = last.effects.deposited
    /\ last.effects.closed_to_payer = 0
    /\ last.effects.tmp_left = 0

\* The redeem closed the custody account holding the whole deposit, which
\* went to the caller as lamports; no tokens were paid out of it.
RedeemUnwraps ==
    /\ last.effects.closed_to_payer = last.effects.deposited
    /\ last.effects.to_fee_recipient = 0
    /\ last.effects.to_recipient = 0
    /\ last.effects.tmp_left = 0

\* C23 as stated: on every successful send and every successful redeem the
\* custody account holds no token balance when it is closed: the staged
\* amount equals the delegated and the taken amount, and the amounts a
\* redeem pays out of custody sum to the deposit.
C23_AsStated ==
    /\ (last.op \in SendOps /\ last.err = "Ok") => SendLeavesNoBalance
    /\ (last.op \in RedeemOps /\ last.err = "Ok") => RedeemLeavesNoBalance

\* C23: on every successful send, and on every successful redeem of a mint
\* other than wrapped SOL, the custody account holds no token balance when
\* it is closed: staged = delegated = taken, respectively the payouts sum
\* to the deposit.  A successful redeem of wrapped SOL closes the account
\* while it holds the whole deposit, which the caller receives as lamports.
C23_CustodyClosedEmpty ==
    /\ (last.op \in SendOps /\ last.err = "Ok") => SendLeavesNoBalance
    /\ (last.op \in RedeemOps /\ last.err = "Ok")
        => IF vaa[last.args[1]].mint = native_mint
           THEN RedeemUnwraps ELSE RedeemLeavesNoBalance

\* A relayer redeemed a token transfer with a native swap: the fee recipient
\* got the fee and the swapped tokens, the recipient the rest.
C23_Witness ==
    /\ last.op \in RedeemOps
    /\ last.err = "Ok"
    /\ vaa[last.args[1]].mint # native_mint
    /\ last.payer # last.args[2]
    /\ last.effects.to_fee_recipient > FeeOf(last.args[1])
    /\ last.effects.to_recipient > 0

\* A send of wrapped lamports succeeded.
C23_WitnessSend ==
    /\ last.op = "send_native_tokens_with_payload"
    /\ last.err = "Ok"
    /\ last.args[6]
    /\ last.effects.staged = 20

(***************************************************************************)
(* C24: the native swap is capped                                          *)
(***************************************************************************)

\* The to-native request of a message in units of its token.
RequestOf(msg) ==
    denormalize_amount(vaa[msg].to_native_token_amount, decimals(vaa[msg].mint))

\* The native amount the request of a message is worth at the ratio of the
\* two swap rates, before any cap.
UncappedNativeOut(msg) ==
    LET mint == vaa[msg].mint
    IN  MulDiv(RequestOf(msg), registered_token[mint].swap_rate,
               Pow10(NativeDecimals), registered_token[native_mint].swap_rate,
               Pow10(decimals(mint)))

\* The last instruction is a successful relayed redemption of a token other
\* than wrapped SOL.
RelayedTokenRedeem ==
    /\ last.op \in RedeemOps
    /\ last.err = "Ok"
    /\ last.payer # last.args[2]
    /\ vaa[last.args[1]].mint # native_mint

\* C24: in a relayed redemption the native amount paid out never exceeds the
\* token's max_native_swap_amount; when the request is worth more than the
\* maximum, exactly the maximum is paid out and the tokens consumed are
\* recomputed from the maximum and are no more than the request; the
\* recipient receives the principal less the fee and the tokens consumed,
\* so the unconsumed part of the request reaches it as tokens.
C24_SwapCapped ==
    RelayedTokenRedeem
        => LET msg == last.args[1]
               token == registered_token[vaa[msg].mint]
               native_amount_out == last.effects.forwarded
               token_amount_in == last.effects.to_fee_recipient - FeeOf(msg)
           IN  /\ native_amount_out <= token.max_native_swap_amount
               /\ token_amount_in <= RequestOf(msg)
               /\ (RequestOf(msg) > 0 /\ token.max_native_swap_amount > 0
                    /\ UncappedNativeOut(msg) > token.max_native_swap_amount)
                    => /\ native_amount_out = token.max_native_swap_amount
                       /\ token_amount_in
                            = MulDiv(token.max_native_swap_amount,
                                registered_token[native_mint].swap_rate,
                                Pow10(decimals(vaa[msg].mint)),
                                token.swap_rate, Pow10(NativeDecimals))
               /\ last.effects.to_recipient
                    = last.effects.deposited - FeeOf(msg) - token_amount_in
               /\ last.effects.to_recipient
                    >= RequestOf(msg) - token_amount_in

\* A request worth 20 lamports was capped at 15: one of the two requested
\* tokens was swapped, the other reached the recipient.
C24_Witness ==
    /\ RelayedTokenRedeem
    /\ RequestOf(last.args[1]) = 2
    /\ UncappedNativeOut(last.args[1]) = 20
    /\ registered_token[vaa[last.args[1]].mint].max_native_swap_amount = 15
    /\ last.effects.forwarded = 15
    /\ last.effects.to_fee_recipient - FeeOf(last.args[1]) = 1

\* A request worth 30 lamports was paid out in full at a maximum of 30.
C24_WitnessUncapped ==
    /\ RelayedTokenRedeem
    /\ RequestOf(last.args[1]) = 3
    /\ registered_token[vaa[last.args[1]].mint].max_native_swap_amount = 30
    /\ last.effects.forwarded = 30
    /\ last.effects.to_fee_recipient - FeeOf(last.args[1]) = 3

(***************************************************************************)
(* C25: the fee and swap calculations never wrap                           *)
(***************************************************************************)

\* The fee of the send request l as a mathematical integer.
ExactTokenFee(l) ==
    MulDiv(relayer_fee[l.args[4]].fee, Pow10(decimals(l.args[1])),
           sender_config.swap_rate_precision,
           registered_token[l.args[1]].swap_rate,
           sender_config.relayer_fee_precision)

\* The fee of the send request l divides by zero or does not fit u64.
FeeFails(l) ==
    \/ registered_token[l.args[1]].swap_rate = 0
    \/ sender_config.relayer_fee_precision = 0
    \/ ExactTokenFee(l) > U64_MAX

\* The native swap of a message divides by zero or does not fit u64.
SwapFails(msg) ==
    LET mint == vaa[msg].mint
        token == registered_token[mint]
    IN  /\ RequestOf(msg) # 0
        /\ token.max_native_swap_amount # 0
        /\ \/ token.swap_rate = 0
           \/ registered_token[native_mint].swap_rate = 0
           \/ redeemer_config.swap_rate_precision = 0
           \/ UncappedNativeOut(msg) > U64_MAX
           \/ MulDiv(token.max_native_swap_amount,
                     registered_token[native_mint].swap_rate,
                     Pow10(decimals(mint)), token.swap_rate,
                     Pow10(NativeDecimals)) > U64_MAX

\* The last instruction is a relayed redemption of a token other than
\* wrapped SOL that passed the checks before the payout.
RelayedRedeemReachesSwap ==
    /\ last.op \in RedeemOps
    /\ last.payer # last.args[2]
    /\ vaa[last.args[1]].mint # native_mint
    /\ last.err \notin {"AccountNotInitialized", "AlreadyRedeemed",
                        "TokenNotRegistered", "InvalidRecipient",
                        "TokenBridgeError"}

\* C25: a send whose fee calculation overflows or divides by zero fails, with
\* FeeCalculationError when the earlier preconditions hold, and a successful
\* send carries the exact fee; a relayed redemption whose swap calculation
\* overflows or divides by zero fails with InvalidSwapCalculation, and a
\* successful one pays out no more than the exact amount.
C25_CalculationsNeverWrap ==
    /\ (last.op \in SendOps /\ SendAccountsExist(last.args[4]))
        => IF FeeFails(last)
           THEN /\ last.err # "Ok"
                /\ FirstFailure(IF last.op = "send_native_tokens_with_payload"
                                THEN StatedSendOrder ELSE WrappedSendOrder,
                                SendFailures(last)) = "Ok"
                     => last.err = "FeeCalculationError"
           ELSE /\ last.err # "FeeCalculationError"
                /\ last.err = "Ok"
                     => last.effects.payload.target_relayer_fee
                          = normalize_amount(ExactTokenFee(last),
                                IF last.op = "send_native_tokens_with_payload"
                                THEN decimals(last.args[1]) ELSE 8)
    /\ RelayedRedeemReachesSwap
        => IF SwapFails(last.args[1])
           THEN last.err = "InvalidSwapCalculation"
           ELSE /\ last.err # "InvalidSwapCalculation"
                /\ last.err = "Ok"
                     => last.effects.forwarded <= UncappedNativeOut(last.args[1])

\* A send failed because the fee, a million units of the token, is beyond
\* u64.
C25_Witness ==
    /\ last.op \in SendOps
    /\ last.err = "FeeCalculationError"
    /\ ExactTokenFee(last) > U64_MAX

\* A redemption failed because the swap is worth more lamports than u64
\* holds.
C25_WitnessSwapOverflow ==
    /\ RelayedRedeemReachesSwap
    /\ last.err = "InvalidSwapCalculation"
    /\ registered_token[native_mint].swap_rate # 0
    /\ UncappedNativeOut(last.args[1]) > U64_MAX

\* A redemption failed because the native asset has no swap rate.
C25_WitnessSwapZero ==
    /\ RelayedRedeemReachesSwap
    /\ last.err = "InvalidSwapCalculation"
    /\ registered_token[native_mint].swap_rate = 0

(***************************************************************************)
(* C26: the token fee is monotonic                                         *)
(***************************************************************************)

\* The token fee of a send of mint to chain 2 at the given relayer fee and
\* swap rate, the precisions being those of the sender config.
TokenFeeAt(mint, fee, swap_rate) ==
    checked_token_fee(fee, decimals(mint), swap_rate,
        sender_config.swap_rate_precision, sender_config.relayer_fee_precision)

\* C26: with the other arguments fixed, a larger relayer fee never yields a
\* smaller token fee and a larger swap rate never yields a larger one, and
\* the token fee at twice the swap rate is half the token fee, rounded down;
\* a fee beyond u64 counts as larger than every fee.  Stated at the relayer
\* fee and the swap rates the deployment holds, against every other value.
C26_TokenFeeMonotonic ==
    \A mint \in {"USDC", "WETH"} :
        LET fee == relayer_fee[2].fee
            swap_rate == registered_token[mint].swap_rate
            now == TokenFeeAt(mint, fee, swap_rate)
        IN  /\ \A fee2 \in FeeValues :
                fee2 >= fee => TokenFeeAt(mint, fee2, swap_rate) >= now
            /\ \A swap_rate2 \in RateValues(mint) :
                swap_rate2 >= swap_rate => TokenFeeAt(mint, fee, swap_rate2) <= now
            /\ now # NoAmount
                => TokenFeeAt(mint, fee, 2 * swap_rate) = now \div 2

\* A send carried a fee of 7 (15 halved and rounded down) after the swap
\* rate was doubled twice from a tenth of the token's scale.
C26_Witness ==
    /\ last.op = "send_native_tokens_with_payload"
    /\ last.err = "Ok"
    /\ relayer_fee[2].fee = 3
    /\ registered_token["USDC"].swap_rate = 4 * Pow10(5)
    /\ last.effects.payload.target_relayer_fee = 7
    /\ TokenFeeAt("USDC", 3, 2 * Pow10(5)) = 15

(***************************************************************************)
(* C27: the payload of a send                                              *)
(***************************************************************************)

\* C27: the payload of a successful send has the three fields
\* target_relayer_fee, to_native_token_amount and recipient and no other:
\* the token fee normalized to 8 decimals, the requested native-swap amount
\* normalized to 8 decimals, and the recipient address as given; the
\* principal is not among them.
C27_PayloadFields ==
    (last.op \in SendOps /\ last.err = "Ok")
        => LET mint == last.args[1]
               dec == IF last.op = "send_native_tokens_with_payload"
                      THEN decimals(mint) ELSE 8
               token_fee == checked_token_fee(relayer_fee[last.args[4]].fee,
                                decimals(mint), registered_token[mint].swap_rate,
                                sender_config.swap_rate_precision,
                                sender_config.relayer_fee_precision)
           IN  /\ DOMAIN last.effects.payload
                    = {"target_relayer_fee", "to_native_token_amount", "recipient"}
               /\ last.effects.payload.target_relayer_fee
                    = token_fee \div Pow10(IF dec > 8 THEN dec - 8 ELSE 0)
               /\ last.effects.payload.to_native_token_amount
                    = last.args[3] \div Pow10(IF dec > 8 THEN dec - 8 ELSE 0)
               /\ last.effects.payload.recipient = last.args[5]

\* A send of a token of 9 decimals: the fee of 10 travels as 1, to
\* recipient 2.
C27_Witness ==
    /\ last.op = "send_native_tokens_with_payload"
    /\ last.err = "Ok"
    /\ decimals(last.args[1]) = 9
    /\ last.args[5] = 2
    /\ relayer_fee[2].fee = 1
    /\ last.effects.payload = TransferWithRelay(1, 0, 2)

\* A send of a token of 9 decimals: the native-swap request of 10 travels
\* as 1.
C27_WitnessToNative ==
    /\ last.op = "send_native_tokens_with_payload"
    /\ last.err = "Ok"
    /\ decimals(last.args[1]) = 9
    /\ last.args[3] = 10
    /\ last.effects.payload = TransferWithRelay(0, 1, 1)

\* A send of a token of 8 decimals: the request of 3 travels as 3.
C27_WitnessWrapped ==
    /\ last.op = "send_wrapped_tokens_with_payload"
    /\ last.err = "Ok"
    /\ last.effects.payload.to_native_token_amount = 3

(***************************************************************************)
(* C28: the message codec                                                  *)
(***************************************************************************)

\* The bytes have another length than a message, or another tag.
IsMalformed(bytes) ==
    IF Len(bytes) # 1 + 3 * FIELD_WIDTH THEN TRUE
    ELSE bytes[1] # PAYLOAD_ID_TRANSFER_WITH_RELAY

\* C28: the bytes a send encoded decode to the same target_relayer_fee,
\* to_native_token_amount and recipient, which are the fields the redeem
\* then uses (it pays the recipient of the message only); bytes with an
\* unrecognized tag or of another length are rejected and give no message.
C28_CodecRoundTrip ==
    /\ [][ (last'.op = "post_vaa")
            => LET msg == last'.args[1]
                   bytes == last'.args[2]
                   sent == last.effects.payload
               IN  /\ bytes = encode(sent)
                        => /\ last'.err = "Ok"
                           /\ vaa'[msg].target_relayer_fee = sent.target_relayer_fee
                           /\ vaa'[msg].to_native_token_amount
                                = sent.to_native_token_amount
                           /\ vaa'[msg].recipient = sent.recipient
                   /\ IsMalformed(bytes)
                        => last'.err = "InvalidPayload" /\ UNCHANGED progVars
         ]_vars
    /\ [][ (last'.op \in RedeemOps /\ last'.err = "Ok")
            => last'.args[2] = vaa[last'.args[1]].recipient
         ]_vars

\* A send to recipient 1 with a native-swap request was delivered and then
\* redeemed by a relayer, who was paid for the swap.
C28_Witness ==
    /\ last.op = "redeem_native_transfer_with_payload"
    /\ last.err = "Ok"
    /\ last.args[2] = 1
    /\ vaa[last.args[1]].recipient = 1
    /\ vaa[last.args[1]].to_native_token_amount = 2
    /\ last.payer # 1

\* Bytes with the tag of no variant were rejected.
C28_WitnessRejected ==
    /\ last.op = "post_vaa"
    /\ last.err = "InvalidPayload"
    /\ Len(last.args[2]) = 1 + 3 * FIELD_WIDTH
    /\ last.args[2][1] = 2

(***************************************************************************)
(* C29: instructions on different transfers                                *)
(***************************************************************************)

\* The send and redeem requests of the two callers, in the form of last.
PairRequests ==
    {[op |-> "send_native_tokens_with_payload", payer |-> payer,
      args |-> <<"USDC", 5, 0, 2, 1, FALSE>>] : payer \in {2, 3}}
    \cup {[op |-> "send_wrapped_tokens_with_payload", payer |-> payer,
           args |-> <<"WETH", 5, 0, 2, 1>>] : payer \in {2, 3}}
    \cup {[op |-> "redeem_native_transfer_with_payload", payer |-> payer,
           args |-> <<1, vaa[1].recipient>>] : payer \in {2, 3}}
    \cup {[op |-> "redeem_wrapped_transfer_with_payload", payer |-> payer,
           args |-> <<2, vaa[2].recipient>>] : payer \in {2, 3}}

\* The mint a request moves.
MintOf(l) == IF l.op \in SendOps THEN l.args[1] ELSE vaa[l.args[1]].mint

\* The request would succeed in the current state.
RequestValid(l) ==
    IF l.op \in SendOps THEN SendRequestValid(l) ELSE RedeemRequestValid(l)

\* What the request needs of the ledger: tokens and lamports in the wallet
\* of its payer, tokens in the bridge's custody of its mint.
NeedsOf(l) ==
    LET mint == MintOf(l) IN
    IF l.op \in SendOps
    THEN LET truncated_amount == truncate_amount(l.args[2],
                IF l.op = "send_native_tokens_with_payload"
                THEN decimals(mint) ELSE 8)
             wrap == l.op = "send_native_tokens_with_payload" /\ l.args[6]
         IN  [tokens |-> IF wrap THEN 0 ELSE truncated_amount,
              lamports |-> IF wrap THEN truncated_amount ELSE 0,
              custody |-> 0]
    ELSE LET msg == l.args[1]
             amount == denormalize_amount(vaa[msg].amount, decimals(mint))
             forwarded == u64_sub(amount, FeeOf(msg), overflow_checks)
         IN  [tokens |-> 0,
              lamports |->
                 IF l.payer = l.args[2] THEN 0
                 ELSE IF mint = native_mint
                 THEN IF forwarded = Aborted \/ forwarded <= amount
                      THEN 0 ELSE forwarded - amount
                 ELSE IF SwapOf(msg) = NoSwap THEN 0 ELSE SwapOf(msg)[2],
              custody |-> IF mint \in NativeMints THEN amount ELSE 0]

\* The ledger holds what the request needs, and the message of a redeem is
\* unclaimed.
FundsSuffice(l, need) ==
    /\ token_balance[MintOf(l)][l.payer] >= need.tokens
    /\ lamports[l.payer] >= need.lamports
    /\ custody[MintOf(l)] >= need.custody
    /\ l.op \in RedeemOps => ~token_bridge_claim[l.args[1]]

\* Nothing but the funds stands in the way of the request.
NothingElseFails(l) ==
    IF l.op \in SendOps
    THEN /\ SendAccountsExist(l.args[4])
         /\ ~FeeFails(l)
         /\ FirstFailure(IF l.op = "send_native_tokens_with_payload"
                         THEN StatedSendOrder ELSE WrappedSendOrder,
                         SendFailures(l)) = "Ok"
         /\ (l.op = "send_native_tokens_with_payload" /\ l.args[6])
                => l.args[1] = native_mint
    ELSE LET msg == l.args[1]
             mint == vaa[msg].mint
             amount == denormalize_amount(vaa[msg].amount, decimals(mint))
             pay == IF mint = native_mint
                    THEN UnwrapPayout(l.payer, l.args[2], amount, FeeOf(msg))
                    ELSE TokenPayout(l.payer, l.args[2], mint, amount,
                            FeeOf(msg), RequestOf(msg))
         IN  /\ registered_token[mint].is_registered
             /\ l.args[2] = vaa[msg].recipient
             /\ pay.err \in {"Ok", "InsufficientLamports"}

\* What the request reads of the ledger.
ReadsOf(l) ==
    <<token_balance[MintOf(l)][l.payer], lamports[l.payer],
      IF l.op \in RedeemOps /\ MintOf(l) \in NativeMints
      THEN custody[MintOf(l)] ELSE 0,
      IF l.op \in RedeemOps THEN token_bridge_claim[l.args[1]] ELSE FALSE>>

\* The requests a and b concern different transfers: they are two sends, a
\* send and a redeem, or redeems of different messages.
DifferentTransfers(a, b) ==
    (a.op \in RedeemOps /\ b.op \in RedeemOps) => a.args[1] # b.args[1]

\* The request b draws on no wallet that a debits or credits and on no
\* bridge custody that a changes.
SharesNoFunds(a, b) ==
    /\ b.payer # a.payer
    /\ a.op \in RedeemOps
        => b.payer \notin {a.args[2], redeemer_config.fee_recipient}
    /\ (b.op \in RedeemOps /\ MintOf(b) \in NativeMints) => MintOf(a) # MintOf(b)

\* C29 as stated: a successful send or redeem leaves the outcome of every
\* request on another transfer as it was: the funds that sufficed for it
\* still suffice, the funds that did not still do not.
C29_AsStated ==
    [][ (last'.op \in SendOps \cup RedeemOps /\ last'.err = "Ok")
        => \A b \in PairRequests :
            DifferentTransfers(last', b)
                => \E need \in {NeedsOf(b)} :
                        FundsSuffice(b, need) <=> FundsSuffice(b, need)'
      ]_vars

\* C29: a request succeeds exactly when nothing but the funds stands in its
\* way and the funds suffice.  A successful send or redeem changes neither
\* the configuration, the registry nor the messages, and for every request
\* on another transfer that shares no wallet and no bridge custody with it,
\* it leaves what that request reads of the ledger as it was: the request
\* succeeds or fails as before and moves the same amounts, so the two give
\* the same balances and claim records in either order.
C29_IndependentTransfers ==
    /\ [](\A b \in PairRequests :
            RequestValid(b) <=> (NothingElseFails(b) /\ FundsSuffice(b, NeedsOf(b))))
    /\ [][ (last'.op \in SendOps \cup RedeemOps /\ last'.err = "Ok")
            => /\ UNCHANGED <<configVars, registryVars, envVars>>
               /\ \A b \in PairRequests :
                    (DifferentTransfers(last', b) /\ SharesNoFunds(last', b))
                        => /\ ReadsOf(b)' = ReadsOf(b)
                           /\ \E need \in {NeedsOf(b)} :
                                FundsSuffice(b, need) <=> FundsSuffice(b, need)'
         ]_vars

\* Both messages were redeemed and both callers sent tokens of both mints.
C29_Witness ==
    /\ token_bridge_claim[1]
    /\ token_bridge_claim[2]
    /\ sequence = 4
    /\ last.err = "Ok"

(***************************************************************************)
(* C30: the outcome of initialize                                          *)
(***************************************************************************)

\* C30: on a vacant deployment initialize(fee_recipient, assistant) fails
\* with InvalidPublicKey and writes nothing when fee_recipient or assistant
\* is the zero identity; otherwise it succeeds, and a successful initialize
\* leaves the caller as owner of SenderConfig, RedeemerConfig and
\* OwnerConfig, assistant and fee_recipient as given, pending_owner None,
\* paused false and both precisions 100000000 on both configs.
C30_InitializeOutcome ==
    [][ (last'.op = "initialize")
        => LET fee_recipient == last'.args[1]
               assistant == last'.args[2]
           IN  /\ (~initialized /\ (fee_recipient = ZeroKey \/ assistant = ZeroKey))
                    => last'.err = "InvalidPublicKey" /\ UNCHANGED progVars
               /\ (~initialized /\ fee_recipient # ZeroKey /\ assistant # ZeroKey)
                    => last'.err = "Ok"
               /\ last'.err = "Ok"
                    => /\ sender_config'.owner = last'.payer
                       /\ redeemer_config'.owner = last'.payer
                       /\ owner_config'.owner = last'.payer
                       /\ owner_config'.assistant = assistant
                       /\ redeemer_config'.fee_recipient = fee_recipient
                       /\ owner_config'.pending_owner = None
                       /\ sender_config'.paused = FALSE
                       /\ sender_config'.relayer_fee_precision = 100000000
                       /\ sender_config'.swap_rate_precision = 100000000
                       /\ redeemer_config'.relayer_fee_precision = 100000000
                       /\ redeemer_config'.swap_rate_precision = 100000000
      ]_vars

\* The deployment was initialized by a caller who is neither the fee
\* recipient nor the assistant.
C30_Witness ==
    /\ last.op = "initialize"
    /\ last.err = "Ok"
    /\ last.payer \notin {last.args[1], last.args[2]}
    /\ owner_config.owner = last.payer
    /\ redeemer_config.fee_recipient = last.args[1]

\* An initialize with the zero identity as assistant was rejected.
C30_WitnessRejected ==
    /\ ~initialized
    /\ last.op = "initialize"
    /\ last.err = "InvalidPublicKey"
    /\ last.args[1] # ZeroKey
    /\ last.args[2] = ZeroKey

(***************************************************************************)
(* C31: the order of the redeem preconditions                              *)
(***************************************************************************)

\* The first precondition a redeem request fails in the current state, in
\* the order already redeemed, token registered, recipient match.
FirstRedeemFailure(l) ==
    LET msg == l.args[1] IN
    IF token_bridge_claim[msg] THEN "AlreadyRedeemed"
    ELSE IF ~registered_token[vaa[msg].mint].is_registered THEN "TokenNotRegistered"
    ELSE IF l.args[2] # vaa[msg].recipient THEN "InvalidRecipient"
    ELSE "Ok"

\* C31: a redeem that fails a precondition reports the earliest one in the
\* order already redeemed, token not registered, recipient mismatch, and
\* reports none of them when all three hold; a redeem rejected with
\* TokenNotRegistered or InvalidRecipient creates no claim record and
\* changes nothing, and a later attempt on the same message succeeds once
\* everything a redeem needs is there.
C31_RedeemCheckOrder ==
    [][ (last'.op \in RedeemOps)
        => LET first == FirstRedeemFailure(last')
           IN  /\ first # "Ok" => last'.err = first
               /\ first = "Ok"
                    => last'.err \notin {"AlreadyRedeemed", "TokenNotRegistered",
                                         "InvalidRecipient"}
               /\ last'.err \in {"TokenNotRegistered", "InvalidRecipient"}
                    => /\ ~token_bridge_claim'[last'.args[1]]
                       /\ UNCHANGED progVars
               /\ RedeemRequestValid(last')
                    => last'.err = "Ok" /\ token_bridge_claim'[last'.args[1]]
      ]_vars

\* A message was redeemed after its token had been deregistered and
\* registered again.
C31_Witness ==
    /\ last.op \in RedeemOps
    /\ last.err = "Ok"
    /\ registered_token[vaa[last.args[1]].mint].max_native_swap_amount = 2

\* A redeem to the wrong recipient of a message whose token is not
\* registered reported the token and left the message unclaimed.
C31_WitnessRejected ==
    /\ last.op \in RedeemOps
    /\ last.err = "TokenNotRegistered"
    /\ last.args[2] # vaa[last.args[1]].recipient
    /\ ~token_bridge_claim[last.args[1]]

(***************************************************************************)
(* C32: the recipient of a relayed redemption keeps a positive amount      *)
(***************************************************************************)

\* The last instruction is a relayed redemption, successful or not, of a
\* token other than wrapped SOL that passed the checks before the payout.
RelayedRedeemOfPeerMessage ==
    /\ RelayedRedeemReachesSwap
    /\ SentByPeer(last.args[1])

\* C32: for a message whose principal exceeds the sum of to-native amount
\* and relayer fee, a relayed redemption of a token other than wrapped SOL
\* never fails in the addition token_amount_in + fee or in the subtraction
\* amount - (token_amount_in + fee) or for want of tokens in custody, and a
\* successful one pays the fee recipient less than the principal and the
\* recipient the strictly positive rest.
C32_RecipientKeepsRest ==
    RelayedRedeemOfPeerMessage
        => /\ last.err \notin {"ArithmeticOverflowAbort", "InsufficientTokenBalance",
                               "TokenProgramError"}
           /\ last.err = "Ok"
                => /\ last.effects.to_fee_recipient < last.effects.deposited
                   /\ last.effects.to_recipient > 0
                   /\ last.effects.to_recipient
                        = last.effects.deposited - last.effects.to_fee_recipient
                   /\ last.effects.deposited = Principal(last.args[1])

\* A relayer redeemed a message with a fee and a native swap: of the
\* principal of 5 the fee recipient got 2, the recipient 3.
C32_Witness ==
    /\ RelayedRedeemOfPeerMessage
    /\ last.err = "Ok"
    /\ FeeOf(last.args[1]) = 1
    /\ last.effects.forwarded > 0
    /\ last.effects.to_fee_recipient = 2
    /\ last.effects.to_recipient = 3

(***************************************************************************)
(* C33: the native send moves the truncated amount                         *)
(***************************************************************************)

\* The amount of a send request rounded down to the 8-decimal granularity
\* of the bridge.
RoundedDown(l) ==
    LET unit == IF decimals(l.args[1]) > 8
                THEN Pow10(decimals(l.args[1]) - 8) ELSE 1
    IN  (l.args[2] \div unit) * unit

\* C33: a successful send_native_tokens_with_payload stages, delegates and
\* bridges exactly the amount rounded down to the bridge's granularity: the
\* sender's tokens (lamports when wrapping) decrease by that and the bridge's
\* custody grows by it, so the residual stays with the sender; a request that
\* rounds down to zero fails with ZeroBridgeAmount once the pause, token and
\* recipient checks pass, and never succeeds.
C33_TruncatedAmountSent ==
    [][ (last'.op = "send_native_tokens_with_payload")
        => LET mint == last'.args[1]
               payer == last'.payer
               sent == RoundedDown(last')
           IN  /\ last'.err = "Ok"
                    => /\ sent > 0
                       /\ last'.effects.staged = sent
                       /\ last'.effects.approved = sent
                       /\ last'.effects.bridged = sent
                       /\ custody'[mint] = custody[mint] + sent
                       /\ IF last'.args[6]
                          THEN /\ lamports'[payer] = lamports[payer] - sent
                               /\ token_balance' = token_balance
                          ELSE /\ token_balance'[mint][payer]
                                    = token_balance[mint][payer] - sent
                               /\ lamports' = lamports
               /\ (sent = 0 /\ SendAccountsExist(last'.args[4])
                    /\ ~sender_config.paused
                    /\ registered_token[mint].is_registered
                    /\ last'.args[4] > CHAIN_ID_SOLANA /\ last'.args[5] # 0)
                    => last'.err = "ZeroBridgeAmount" /\ UNCHANGED progVars
      ]_vars

\* A send that asked for 25 units of a 9-decimal token moved 20 of them.
C33_Witness ==
    /\ last.op = "send_native_tokens_with_payload"
    /\ last.err = "Ok"
    /\ last.args[2] = 25
    /\ last.effects.bridged = 20
    /\ custody[last.args[1]] = 20

\* A send of 5 units of a 9-decimal token was refused: it rounds down to
\* zero.
C33_WitnessZero ==
    /\ last.op = "send_native_tokens_with_payload"
    /\ last.err = "ZeroBridgeAmount"
    /\ last.args[2] = 5

(***************************************************************************)
(* C34: wrapping native gas needs the native mint                          *)
(***************************************************************************)

\* C34: send_native_tokens_with_payload with wrap_native set succeeds only
\* for the native mint, and then takes the principal from the caller's
\* lamports and leaves the token balances alone; for any other mint it fails
\* and moves nothing, with NativeMintRequired when the request passes the
\* checks made before the wrap; without wrap_native a successful send takes
\* the principal from the caller's token balance and none of its lamports.
C34_WrapNeedsNativeMint ==
    [][ (last'.op = "send_native_tokens_with_payload"
            /\ SendAccountsExist(last'.args[4]))
        => LET mint == last'.args[1]
               payer == last'.payer
               wrap_native == last'.args[6]
               first == FirstFailure(StatedSendOrder, SendFailures(last'))
           IN  /\ (wrap_native /\ mint # native_mint)
                    => /\ last'.err # "Ok"
                       /\ UNCHANGED progVars
                       /\ (first = "Ok"
                            /\ last'.err \notin {"FeeCalculationError",
                                                 "ArithmeticOverflowAbort"})
                            => last'.err = "NativeMintRequired"
               /\ (wrap_native /\ last'.err = "Ok")
                    => /\ mint = native_mint
                       /\ lamports'[payer]
                            = lamports[payer] - last'.effects.bridged
                       /\ token_balance' = token_balance
               /\ (~wrap_native /\ last'.err = "Ok")
                    => /\ token_balance'[mint][payer]
                            = token_balance[mint][payer] - last'.effects.bridged
                       /\ lamports' = lamports
               /\ last'.err = "NativeMintRequired"
                    => wrap_native /\ mint # native_mint
      ]_vars

\* A request to wrap lamports for a mint other than the native mint was
\* refused.
C34_Witness ==
    /\ last.op = "send_native_tokens_with_payload"
    /\ last.args[6]
    /\ last.args[1] # native_mint
    /\ last.err = "NativeMintRequired"

\* Lamports were wrapped and sent: the caller's token balance is whole.
C34_WitnessWrapped ==
    /\ last.op = "send_native_tokens_with_payload"
    /\ last.args[6]
    /\ last.err = "Ok"
    /\ last.effects.bridged = 20
    /\ lamports[last.payer] = 0
    /\ token_balance[native_mint][last.payer] = 20

\* Tokens were sent without wrapping: the caller's lamports are whole.
C34_WitnessTokens ==
    /\ last.op = "send_native_tokens_with_payload"
    /\ ~last.args[6]
    /\ last.err = "Ok"
    /\ last.args[1] # native_mint
    /\ lamports[last.payer] = 20

(***************************************************************************)
(* C35: update_swap_rate                                                   *)
(***************************************************************************)

\* What update_swap_rate answers to the request recorded in l: the first of
\* its three checks that fails.
SwapRateAnswer(l) ==
    IF l.payer \notin {owner_config.owner, owner_config.assistant}
    THEN "OwnerOrAssistantOnly"
    ELSE IF ~registered_token[l.args[1]].is_registered
    THEN "TokenNotRegistered"
    ELSE IF l.args[2] = 0 THEN "ZeroSwapRate" ELSE "Ok"

\* C35: update_swap_rate checks the caller (OwnerOrAssistantOnly), then the
\* registration of the token (TokenNotRegistered), then swap_rate > 0
\* (ZeroSwapRate), and reports the first that fails; on success it writes
\* swap_rate of that token and nothing else, is_registered and
\* max_native_swap_amount keep their values; on failure nothing changes.
C35_UpdateSwapRate ==
    [][ (last'.op = "update_swap_rate" /\ initialized)
        => LET mint == last'.args[1]
               old == registered_token[mint]
           IN  /\ last'.err = SwapRateAnswer(last')
               /\ last'.err = "Ok"
                    => /\ registered_token' = [registered_token EXCEPT ![mint] =
                                [swap_rate |-> last'.args[2],
                                 max_native_swap_amount |-> old.max_native_swap_amount,
                                 is_registered |-> old.is_registered]]
                       /\ UNCHANGED <<configVars, foreign_contract, relayer_fee,
                                      ledgerVars, envVars>>
               /\ last'.err # "Ok" => UNCHANGED progVars
      ]_vars

\* The assistant changed the swap rate of a registered token from 1 to 2;
\* the token keeps its maximum native swap amount of 1.
C35_Witness ==
    /\ last.op = "update_swap_rate"
    /\ last.err = "Ok"
    /\ last.payer = owner_config.assistant
    /\ last.payer # owner_config.owner
    /\ last.args[2] = 2
    /\ registered_token[last.args[1]]
            = [swap_rate |-> 2, max_native_swap_amount |-> 1, is_registered |-> TRUE]

\* A zero rate for a token that is not registered: the registration is
\* reported.
C35_WitnessOrder ==
    /\ last.op = "update_swap_rate"
    /\ last.err = "TokenNotRegistered"
    /\ last.args[2] = 0

\* A stranger with a zero rate for a token that is not registered: the
\* caller is reported.
C35_WitnessCaller ==
    /\ last.op = "update_swap_rate"
    /\ last.err = "OwnerOrAssistantOnly"
    /\ last.args[2] = 0
    /\ ~registered_token[last.args[1]].is_registered

(***************************************************************************)
(* C36, C37: the owner fields and the pending owner                        *)
(***************************************************************************)

\* C36: once the program is initialized the owner fields of SenderConfig,
\* RedeemerConfig and OwnerConfig are equal in every reachable state,
\* whatever initialize, submit, confirm and cancel calls have been made.
C36_OwnersAgree ==
    initialized
        => /\ sender_config.owner = owner_config.owner
           /\ redeemer_config.owner = owner_config.owner

\* A confirmed transfer: the three owner fields name the key that was
\* pending, which is not the key that submitted the request.
C36_Witness ==
    /\ last.op = "confirm_ownership_transfer_request"
    /\ last.err = "Ok"
    /\ last.prior_pending = Some(last.payer)
    /\ sender_config.owner = last.payer
    /\ redeemer_config.owner = last.payer
    /\ owner_config.owner = last.payer

\* C37: in every reachable state pending_owner is None or a key that is
\* neither the zero key nor the current owner, and a successful confirm
\* installs an owner different from the one before it.
C37_PendingOwnerIsNew ==
    /\ [](owner_config.pending_owner # None
            => /\ owner_config.pending_owner.is_some
               /\ owner_config.pending_owner.key # ZeroKey
               /\ owner_config.pending_owner.key # owner_config.owner)
    /\ [][ (last'.op = "confirm_ownership_transfer_request" /\ last'.err = "Ok")
            => /\ owner_config'.owner # owner_config.owner
               /\ owner_config'.pending_owner = None ]_vars

\* A request is outstanding.
C37_Witness ==
    /\ last.op = "submit_ownership_transfer_request"
    /\ last.err = "Ok"
    /\ owner_config.pending_owner = Some(last.args[1])
    /\ last.args[1] # owner_config.owner

\* A request naming the owner itself was refused while another request was
\* outstanding, which stays.
C37_WitnessRefused ==
    /\ last.op = "submit_ownership_transfer_request"
    /\ last.err = "AlreadyTheOwner"
    /\ owner_config.pending_owner # None

\* A transfer was confirmed: the caller is the owner and no request is
\* outstanding.
C37_WitnessConfirmed ==
    /\ last.op = "confirm_ownership_transfer_request"
    /\ last.err = "Ok"
    /\ owner_config.owner = last.payer
    /\ owner_config.pending_owner = None

(***************************************************************************)
(* C38: the plain u64 additions and subtractions                           *)
(***************************************************************************)

\* What a relayed redemption of message msg subtracts from the principal:
\* the relayer fee, and for a token other than wrapped SOL also the tokens
\* consumed by the native swap.
Subtrahend(msg) ==
    IF vaa[msg].mint = native_mint THEN FeeOf(msg)
    ELSE SwapOf(msg)[1] + FeeOf(msg)

\* C38 as stated: no send succeeds when the sum of the to-native amount and
\* the relayer fee, taken as unbounded integers, reaches the principal, and
\* no relayed redemption succeeds when what it subtracts from the principal
\* exceeds the principal.
C38_AsStated ==
    /\ (last.op \in SendOps /\ last.err = "Ok") => SentEnough
    /\ (last.op \in RedeemOps /\ last.err = "Ok" /\ last.payer # last.args[2])
            => Subtrahend(last.args[1]) <= Principal(last.args[1])

\* A relayer redeemed a wrapped SOL message whose fee exceeds its principal
\* and forwarded the wrapped difference to the recipient.
C38_Witness ==
    /\ last.op = "redeem_native_transfer_with_payload"
    /\ last.err = "Ok"
    /\ last.payer # last.args[2]
    /\ vaa[last.args[1]].mint = native_mint
    /\ FeeOf(last.args[1]) > Principal(last.args[1])
    /\ last.effects.forwarded
            = Principal(last.args[1]) - FeeOf(last.args[1]) + U64_MAX + 1

\* A send was accepted with a to-native amount of 2^U64_BITS - 1: its sum
\* with the fee wrapped to zero.
C38_WitnessSend ==
    /\ last.op \in SendOps
    /\ last.err = "Ok"
    /\ last.args[3] = U64_MAX
    /\ SentAmounts.to_native + SentAmounts.relayer_fee > U64_MAX

\* The same redemption in a build with overflow checks is aborted.
C38_WitnessAbort ==
    /\ last.op = "redeem_native_transfer_with_payload"
    /\ last.err = "ArithmeticOverflowAbort"
    /\ overflow_checks
    /\ FeeOf(last.args[1]) > Principal(last.args[1])

====
